---- MODULE Spec2Model ----
(***************************************************************************)
(* Aviation weather briefing: the severity classifier (analyze_metar), the *)
(* multi-source combiner (analyze_combined_weather_data) and the route     *)
(* aggregator (generate_flight_briefing) of weather_analyzer.py, driven by *)
(* the flight-plan handler of app.py.                                      *)
(*                                                                         *)
(* Categories keep the names of the source: CLEAR is the favorable tier,   *)
(* SIGNIFICANT the marginal tier and SEVERE the adverse tier.              *)
(*                                                                         *)
(* Text is a sequence of one-character strings, so that Python's           *)
(* `needle in text` is a real substring search.  An optional value is the  *)
(* empty sequence (None) or a one-element sequence.  Visibility is in      *)
(* whole statute miles (0 stands for any reading below 1 SM), ceiling in   *)
(* feet, wind in knots.                                                    *)
(***************************************************************************)
EXTENDS Integers, Sequences, FiniteSets, TLC

VARIABLES
  metar_data,      \* classifier: the observation handed to analyze_metar
  wx_groups,       \* classifier: the present-weather groups behind wxString
  metar_analysis,  \* classifier: the result of analyze_metar
  results,         \* get_weather: the reports fetched for one airport
  http_status,     \* get_weather: 0 while running, then 200 or 500
  airports,        \* analyze_flight_plan: the route, in order
  departure_in_future, \* analyze_flight_plan: departure_time lies ahead
  next_airport,    \* analyze_flight_plan: position of the fetch loop
  weather_data,    \* analyze_flight_plan: airport -> reports and analysis
  invalid_airports, \* analyze_flight_plan: airports without any report
  briefing,        \* analyze_flight_plan: the route briefing, once made
  nlp_analysis,    \* analyze_flight_plan: the narrative summary, once made
  plan_status,     \* analyze_flight_plan: 0 while running, then 200/400/500
  metar_json,      \* _parse_metar: the upstream record of one observation
  parsed,          \* _parse_metar: the record made of it
  raw_metar,       \* parse_metar: the raw text of one observation
  components,      \* parse_metar: the components decoded from it
  raw_report,      \* the decoders: the kind and raw text of one report
  decoded,         \* parse_metar/parse_taf/parse_pirep: what it returned
  pirep_summary,   \* parse_raw and make_summary: the report and its summary
  pirep_items,     \* fetch_and_sort: the items fetch() returned
  sorted_pireps    \* fetch_and_sort: what it returned, or that it raised

classifier_vars == <<metar_data, wx_groups, metar_analysis>>

weather_vars == <<results, http_status>>

plan_vars == <<airports, departure_in_future, next_airport, weather_data,
               invalid_airports, briefing, nlp_analysis, plan_status>>

decoder_vars == <<metar_json, parsed, raw_metar, components,
                  raw_report, decoded, pirep_summary>>

pirep_vars == <<pirep_items, sorted_pireps>>

vars == <<metar_data, wx_groups, metar_analysis, results, http_status,
          airports, departure_in_future, next_airport, weather_data,
          invalid_airports, briefing, nlp_analysis, plan_status,
          metar_json, parsed, raw_metar, components,
          raw_report, decoded, pirep_summary, pirep_items, sorted_pireps>>

None == <<>>

Some(v) == <<v>>

\* A field holding a value that is no number (a string the upstream left
\* as it came, such as "VRB"): Python refuses to order it against a number.
Mistyped == <<0, 0>>

IsNumber(field) == Len(field) = 1

(***************************************************************************)
(* Text helpers                                                            *)
(***************************************************************************)
LowerCase == <<"a","b","c","d","e","f","g","h","i","j","k","l","m",
               "n","o","p","q","r","s","t","u","v","w","x","y","z">>

UpperCase == <<"A","B","C","D","E","F","G","H","I","J","K","L","M",
               "N","O","P","Q","R","S","T","U","V","W","X","Y","Z">>

\* the capital of each small letter, and the small letter of each capital
Capital == [c \in { LowerCase[k] : k \in 1..26 } |->
              UpperCase[CHOOSE k \in 1..26 : LowerCase[k] = c]]

Small == [c \in { UpperCase[k] : k \in 1..26 } |->
            LowerCase[CHOOSE k \in 1..26 : UpperCase[k] = c]]

\* str.upper()
upper(s) ==
  SubSeq([i \in 1..Len(s) |->
            IF s[i] \in DOMAIN Capital THEN Capital[s[i]] ELSE s[i]],
         1, Len(s))

\* str.lower()
lower(s) ==
  SubSeq([i \in 1..Len(s) |->
            IF s[i] \in DOMAIN Small THEN Small[s[i]] ELSE s[i]],
         1, Len(s))

\* Python's `needle in text` on strings
In(needle, text) ==
  \E i \in 1..(Len(text) - Len(needle) + 1) :
     SubSeq(text, i, i + Len(needle) - 1) = needle

RECURSIVE Join(_)
\* ' '.join(words)
Join(words) ==
  IF words = <<>> THEN <<>>
  ELSE IF Len(words) = 1 THEN words[1]
  ELSE words[1] \o <<" ">> \o Join(Tail(words))

(***************************************************************************)
(* WeatherAnalyzer.__init__: threshold tables                              *)
(***************************************************************************)
vfr_minimums == [visibility |-> 3, ceiling |-> 1000]

mvfr_minimums == [visibility |-> 1, ceiling |-> 500]

wind_thresholds == [moderate |-> 15, strong |-> 25, severe |-> 35]

(***************************************************************************)
(* Classifier                                                              *)
(***************************************************************************)
_analyze_visibility(visibility) ==
  IF visibility >= vfr_minimums.visibility
  THEN [factor |-> "Visibility (Good)", score |-> 0, level |-> "good"]
  ELSE IF visibility >= mvfr_minimums.visibility
  THEN [factor |-> "Visibility (Marginal)", score |-> 2, level |-> "marginal"]
  ELSE [factor |-> "Visibility (Poor)", score |-> 4, level |-> "poor"]

_analyze_ceiling(ceiling) ==
  IF ceiling >= vfr_minimums.ceiling
  THEN [factor |-> "Ceiling (Good)", score |-> 0, level |-> "good"]
  ELSE IF ceiling >= mvfr_minimums.ceiling
  THEN [factor |-> "Ceiling (Marginal)", score |-> 2, level |-> "marginal"]
  ELSE [factor |-> "Ceiling (Low)", score |-> 4, level |-> "poor"]

\* wind_gust is optional; `wind_gust if wind_gust else wind_speed` also
\* falls back to the speed for a gust of 0.
_analyze_winds(wind_speed, wind_gust) ==
  LET effective_wind == IF wind_gust # None /\ wind_gust[1] # 0
                        THEN wind_gust[1] ELSE wind_speed
  IN  IF effective_wind < wind_thresholds.moderate
      THEN [factor |-> "Winds (Light)", score |-> 0, hazard |-> None,
            level |-> "light"]
      ELSE IF effective_wind < wind_thresholds.strong
      THEN [factor |-> "Winds (Moderate)", score |-> 1,
            hazard |-> Some("Moderate winds - monitor crosswind components"),
            level |-> "moderate"]
      ELSE IF effective_wind < wind_thresholds.severe
      THEN [factor |-> "Winds (Strong)", score |-> 3,
            hazard |-> Some("Strong winds - significant crosswind risk"),
            level |-> "strong"]
      ELSE [factor |-> "Winds (Severe)", score |-> 5,
            hazard |-> Some("Severe winds - extreme caution required"),
            level |-> "severe"]

_analyze_weather_conditions(weather_string) ==
  LET weather_upper == upper(weather_string)
      has(codes) == \E c \in codes : In(c, weather_upper)
      precipitation ==
        IF has({<<"R","A">>, <<"S","N">>, <<"G","R">>, <<"G","S">>})
        THEN IF has({<<"+","R","A">>, <<"+","S","N">>, <<"T","S","R","A">>})
             THEN [factors |-> <<"Heavy precipitation present">>,
                   hazards |-> <<"Heavy precipitation - reduced visibility and runway conditions">>,
                   score |-> 3]
             ELSE IF has({<<"-","R","A">>, <<"-","S","N">>})
             THEN [factors |-> <<"Light precipitation present">>,
                   hazards |-> <<>>, score |-> 1]
             ELSE [factors |-> <<"Moderate precipitation present">>,
                   hazards |-> <<>>, score |-> 2]
        ELSE [factors |-> <<>>, hazards |-> <<>>, score |-> 0]
      thunderstorms ==
        IF In(<<"T","S">>, weather_upper)
        THEN [factors |-> <<"Thunderstorms present">>,
              hazards |-> <<"Thunderstorms - severe turbulence, wind shear, and lightning risk">>,
              score |-> 4]
        ELSE [factors |-> <<>>, hazards |-> <<>>, score |-> 0]
      obscuration ==
        IF has({<<"F","G">>, <<"B","R">>, <<"H","Z">>})
        THEN [factors |-> <<"Reduced visibility due to fog/mist/haze">>,
              hazards |-> <<"Visibility restrictions - approach and taxi hazards">>,
              score |-> 2]
        ELSE [factors |-> <<>>, hazards |-> <<>>, score |-> 0]
      freezing ==
        IF In(<<"F","Z">>, weather_upper)
        THEN [factors |-> <<"Freezing conditions present">>,
              hazards |-> <<"Icing conditions - aircraft and runway icing risk">>,
              score |-> 3]
        ELSE [factors |-> <<>>, hazards |-> <<>>, score |-> 0]
  IN  [factors |-> precipitation.factors \o thunderstorms.factors
                   \o obscuration.factors \o freezing.factors,
       hazards |-> precipitation.hazards \o thunderstorms.hazards
                   \o obscuration.hazards \o freezing.hazards,
       score   |-> precipitation.score + thunderstorms.score
                   + obscuration.score + freezing.score]

\* A derivation whose third clause looks at the tag alone.
_determine_category_by_tag(severity_score, metar) ==
  LET flight_cat == metar.flight_category
  IN  IF flight_cat = "VFR" /\ severity_score <= 1 THEN "CLEAR"
      ELSE IF flight_cat = "MVFR" \/ (flight_cat = "VFR" /\ severity_score > 1)
      THEN "SIGNIFICANT"
      ELSE IF flight_cat \in {"IFR", "LIFR"} THEN "SEVERE"
      ELSE "SIGNIFICANT"

\* A derivation whose first clause looks at the score alone.
_determine_category_by_score(severity_score, metar) ==
  LET flight_cat == metar.flight_category
  IN  IF severity_score <= 1 THEN "CLEAR"
      ELSE IF flight_cat = "MVFR" \/ (flight_cat = "VFR" /\ severity_score > 1)
      THEN "SIGNIFICANT"
      ELSE IF flight_cat \in {"IFR", "LIFR"} \/ severity_score >= 4
      THEN "SEVERE"
      ELSE "SIGNIFICANT"

_determine_category(severity_score, metar) ==
  LET flight_cat == metar.flight_category
  IN  IF flight_cat = "VFR" /\ severity_score <= 1 THEN "CLEAR"
      ELSE IF flight_cat = "MVFR" \/ (flight_cat = "VFR" /\ severity_score > 1)
      THEN "SIGNIFICANT"
      ELSE IF flight_cat \in {"IFR", "LIFR"} \/ severity_score >= 4
      THEN "SEVERE"
      ELSE "SIGNIFICANT"

_generate_summary(analysis, metar) ==
  IF analysis.category = "CLEAR" THEN <<"Good flying conditions.">>
  ELSE IF analysis.category = "SIGNIFICANT"
  THEN <<"Marginal conditions requiring attention.">>
  ELSE <<"Poor conditions requiring careful consideration.">>

\* metar_data.get('wind_speed', 0) yields None when the key holds None, and
\* `None > 15` raises TypeError.
_generate_recommendations(analysis, metar) ==
  IF analysis.category = "CLEAR"
  THEN [raised |-> FALSE,
        value |-> <<"Conditions favorable for flight operations",
                    "Monitor weather updates for any changes">>]
  ELSE IF analysis.category = "SIGNIFICANT"
  THEN LET base == <<"Review alternate airports and fuel requirements",
                     "Monitor weather trends and updates closely",
                     "Consider delaying departure if conditions are deteriorating">>
       IN  IF ~IsNumber(metar.wind_speed)
           THEN [raised |-> TRUE, value |-> <<>>]
           ELSE IF metar.wind_speed[1] > 15
           THEN [raised |-> FALSE,
                 value |-> Append(base, "Calculate crosswind components for all runways")]
           ELSE [raised |-> FALSE, value |-> base]
  ELSE [raised |-> FALSE,
        value |-> <<"Consider delaying flight until conditions improve",
                    "If proceeding, ensure alternate airports are available",
                    "Review emergency procedures and diversion options",
                    "Monitor weather radar and pilot reports">>]

\* `wind_gust if wind_gust else wind_speed`: a non-empty string is truthy
effective_wind_is_number(metar) ==
  IF metar.wind_gust # None
     /\ (IsNumber(metar.wind_gust) => metar.wind_gust[1] # 0)
  THEN IsNumber(metar.wind_gust)
  ELSE IsNumber(metar.wind_speed)

\* the comparisons of _analyze_visibility, _analyze_ceiling and
\* _analyze_winds raise TypeError on a value that is no number
ComparisonRaises(metar) ==
  \/ metar.visibility # None /\ ~IsNumber(metar.visibility)
  \/ metar.ceiling # None /\ ~IsNumber(metar.ceiling)
  \/ metar.wind_speed # None /\ ~effective_wind_is_number(metar)

\* the body of the try block
analyze_metar_try(metar) ==
  LET analysis0 == [category |-> "CLEAR",
                    flight_category |-> metar.flight_category,
                    summary |-> <<>>,
                    key_factors |-> <<>>, hazards |-> <<>>,
                    recommendations |-> <<>>, severity_score |-> 0]
      visibility(analysis) ==
        IF metar.visibility # None
        THEN LET vis_analysis == _analyze_visibility(metar.visibility[1])
             IN  [analysis EXCEPT
                    !.key_factors = Append(@, vis_analysis.factor),
                    !.severity_score = @ + vis_analysis.score]
        ELSE analysis
      ceiling(analysis) ==
        IF metar.ceiling # None
        THEN LET ceiling_analysis == _analyze_ceiling(metar.ceiling[1])
             IN  [analysis EXCEPT
                    !.key_factors = Append(@, ceiling_analysis.factor),
                    !.severity_score = @ + ceiling_analysis.score]
        ELSE analysis
      winds(analysis) ==
        IF metar.wind_speed # None
        THEN LET wind_analysis ==
                   _analyze_winds(metar.wind_speed[1], metar.wind_gust)
             IN  [analysis EXCEPT
                    !.key_factors = Append(@, wind_analysis.factor),
                    !.severity_score = @ + wind_analysis.score,
                    !.hazards = @ \o wind_analysis.hazard]
        ELSE analysis
      weather(analysis) ==
        IF metar.weather_conditions # <<>>
        THEN LET wx_analysis ==
                   _analyze_weather_conditions(metar.weather_conditions)
             IN  [analysis EXCEPT
                    !.key_factors = @ \o wx_analysis.factors,
                    !.severity_score = @ + wx_analysis.score,
                    !.hazards = @ \o wx_analysis.hazards]
        ELSE analysis
      categorise(analysis) ==
        [analysis EXCEPT
           !.category = _determine_category(analysis.severity_score, metar)]
      summarise(analysis) ==
        [analysis EXCEPT !.summary = _generate_summary(analysis, metar)]
      recommend(analysis) ==
        LET recommendations == _generate_recommendations(analysis, metar)
        IN  IF recommendations.raised
            THEN [raised |-> TRUE, value |-> analysis0]
            ELSE [raised |-> FALSE,
                  value |-> [analysis EXCEPT
                               !.recommendations = recommendations.value]]
  IN  IF ComparisonRaises(metar)
      THEN [raised |-> TRUE, value |-> analysis0]
      ELSE recommend(summarise(categorise(
             weather(winds(ceiling(visibility(analysis0)))))))

\* An exception that leaves the function: what analyze_metar would do
\* without its except branch.
analyze_metar_uncaught(metar) ==
  LET attempt == analyze_metar_try(metar)
  IN  IF attempt.raised THEN [raised |-> TRUE] ELSE attempt.value

\* The result of the `except Exception` branch carries only these two keys.
analyze_metar(metar) ==
  LET attempt == analyze_metar_try(metar)
  IN  IF attempt.raised
      THEN [category |-> "UNKNOWN", error |-> "TypeError"]
      ELSE attempt.value

(***************************************************************************)
(* Multi-source combiner                                                   *)
(***************************************************************************)
\* An update in which the keys of `base` keep their values.
update_new_keys_only(base, other) == base @@ other

\* dict.update(): the keys of `other` replace or extend those of `base`
update(base, other) == other @@ base

\* raw_text is optional: taf.get('raw_text', '') yields None when the key
\* holds None, and None.upper() raises AttributeError.
_analyze_taf_data(taf) ==
  IF taf.raw_text = None THEN [raised |-> TRUE, value |-> <<>>]
  ELSE
    LET raw_text == upper(taf.raw_text[1])
        f1 == IF In(<<"T","S">>, raw_text)
              THEN <<<<"T","h","u","n","d","e","r","s","t","o","r","m","s"," ","f","o","r","e","c","a","s","t">>>> ELSE <<>>
        f2 == IF In(<<"F","G">>, raw_text) \/ In(<<"B","R">>, raw_text)
              THEN <<<<"F","o","g","/","m","i","s","t"," ","f","o","r","e","c","a","s","t">>>> ELSE <<>>
        f3 == IF In(<<"R","A">>, raw_text) \/ In(<<"S","N">>, raw_text)
              THEN <<<<"P","r","e","c","i","p","i","t","a","t","i","o","n"," ","f","o","r","e","c","a","s","t">>>> ELSE <<>>
        f4 == IF In(<<"T","E","M","P","O">>, raw_text)
              THEN <<<<"T","e","m","p","o","r","a","r","y"," ","c","o","n","d","i","t","i","o","n","s"," ","e","x","p","e","c","t","e","d">>>> ELSE <<>>
        f5 == IF In(<<"P","R","O","B">>, raw_text)
              THEN <<<<"P","r","o","b","a","b","i","l","i","t","y"," ","c","o","n","d","i","t","i","o","n","s"," ","f","o","r","e","c","a","s","t">>>> ELSE <<>>
        f6 == IF In(<<"B","E","C","M","G">>, raw_text)
              THEN <<<<"C","o","n","d","i","t","i","o","n","s"," ","b","e","c","o","m","i","n","g"," ","d","i","f","f","e","r","e","n","t">>>> ELSE <<>>
        f7 == IF \E wind \in {<<"G","2","5">>, <<"G","3","0">>, <<"G","3","5">>} : In(wind, raw_text)
              THEN <<<<"S","t","r","o","n","g"," ","w","i","n","d"," ","g","u","s","t","s"," ","f","o","r","e","c","a","s","t">>>> ELSE <<>>
    IN  [raised |-> FALSE, value |-> f1 \o f2 \o f3 \o f4 \o f5 \o f6 \o f7]

\* the factors one pilot report adds
PirepFactors(pirep) ==
  LET raw_text == upper(pirep.raw_text[1])
      f1 == IF In(<<"T","U","R","B">>, raw_text) \/ In(<<"R","O","U","G","H">>, raw_text)
            THEN <<<<"T","u","r","b","u","l","e","n","c","e"," ","r","e","p","o","r","t","e","d"," ","b","y"," ","p","i","l","o","t","s">>>> ELSE <<>>
      f2 == IF In(<<"I","C","E">>, raw_text) \/ In(<<"I","C","I","N","G">>, raw_text)
            THEN <<<<"I","c","i","n","g"," ","c","o","n","d","i","t","i","o","n","s"," ","r","e","p","o","r","t","e","d">>>> ELSE <<>>
      f3 == IF In(<<"S","M","O","O","T","H">>, raw_text)
            THEN <<<<"S","m","o","o","t","h"," ","c","o","n","d","i","t","i","o","n","s"," ","r","e","p","o","r","t","e","d">>>> ELSE <<>>
      f4 == IF In(<<"C","L","O","U","D">>, raw_text) \/ In(<<"L","A","Y","E","R">>, raw_text)
            THEN <<<<"C","l","o","u","d"," ","c","o","n","d","i","t","i","o","n","s"," ","r","e","p","o","r","t","e","d"," ","b","y"," ","p","i","l","o","t","s">>>> ELSE <<>>
      f5 == IF In(<<"C","H","O","P">>, raw_text)
            THEN <<<<"L","i","g","h","t"," ","c","h","o","p"," ","r","e","p","o","r","t","e","d">>>> ELSE <<>>
      f6 == IF In(<<"R","I","D","E">>, raw_text)
            THEN <<<<"R","i","d","e"," ","c","o","n","d","i","t","i","o","n","s"," ","r","e","p","o","r","t","e","d"," ","b","y"," ","p","i","l","o","t","s">>>> ELSE <<>>
  IN  f1 \o f2 \o f3 \o f4 \o f5 \o f6

RECURSIVE _analyze_pirep_data(_)
\* An entry that is None is skipped.  pirep.get('raw_text', '') yields None
\* when the key holds None, and None.upper() raises AttributeError.
_analyze_pirep_data(pireps) ==
  IF pireps = <<>> THEN [raised |-> FALSE, value |-> <<>>]
  ELSE IF Head(pireps) = None THEN _analyze_pirep_data(Tail(pireps))
  ELSE IF Head(pireps)[1].raw_text = None THEN [raised |-> TRUE, value |-> <<>>]
  ELSE LET rest == _analyze_pirep_data(Tail(pireps))
       IN  [raised |-> rest.raised,
            value |-> PirepFactors(Head(pireps)[1]) \o rest.value]

\* any(word in factor.lower() for factor in factors)
AnyFactor(words, factors) ==
  \E k \in 1..Len(factors) : \E w \in words : In(w, lower(factors[k]))

\* airport_data: metar and taf (optional), pirep (list) and, when the caller
\* supplies them, time_appropriate_conditions (here: whether it is set) and
\* primary_source.  A raised AttributeError leaves the operation.
analyze_combined_weather_data(airport_data) ==
  LET analysis0 == [category |-> "CLEAR", severity_score |-> 0,
                    sources_used |-> <<>>, combined_factors |-> <<>>,
                    flight_category |-> "UNKNOWN", summary |-> <<>>,
                    key_factors |-> <<>>, hazards |-> <<>>,
                    recommendations |-> <<>>]
      metar == airport_data.metar
      taf == airport_data.taf
      pireps == airport_data.pirep
      taf_data == IF taf # None THEN _analyze_taf_data(taf[1])
                  ELSE [raised |-> FALSE, value |-> <<>>]
      pirep_data == _analyze_pirep_data(pireps)
      with_metar(analysis) ==
        IF metar # None
        THEN [update(analysis, analyze_metar(metar[1]))
                EXCEPT !.sources_used = Append(@, "METAR")]
        ELSE analysis
      add_taf(analysis, taf_factors) ==
        [analysis EXCEPT
           !.combined_factors = @ \o taf_factors,
           !.sources_used = Append(@, "TAF"),
           !.severity_score =
              IF AnyFactor({<<"d","e","t","e","r","i","o","r","a","t","i","n","g">>, <<"t","h","u","n","d","e","r","s","t","o","r","m">>}, taf_factors)
              THEN @ + 2
              ELSE IF AnyFactor({<<"f","o","r","e","c","a","s","t">>}, taf_factors)
              THEN @ + 1 ELSE @]
      with_taf(analysis) ==
        IF taf # None
        THEN add_taf(analysis, taf_data.value)
        ELSE analysis
      add_pirep(analysis, pirep_factors) ==
        [analysis EXCEPT
           !.combined_factors = @ \o pirep_factors,
           !.sources_used = Append(@, "PIREP"),
           !.severity_score =
              IF AnyFactor({<<"t","u","r","b","u","l","e","n","c","e">>, <<"i","c","i","n","g">>}, pirep_factors)
              THEN @ + 2
              ELSE IF AnyFactor({<<"s","m","o","o","t","h">>}, pirep_factors)
              THEN @ - 1 ELSE @]
      with_pirep(analysis) ==
        IF pireps # <<>>
        THEN add_pirep(analysis, pirep_data.value)
        ELSE analysis
      with_time(analysis) ==
        IF airport_data.time_appropriate_conditions
           /\ airport_data.primary_source = "TAF"
        THEN [time_aware |-> TRUE] @@
             [analysis EXCEPT !.combined_factors =
                Append(@, <<"U","s","i","n","g"," ","f","o","r","e","c","a","s","t"," ","d","a","t","a"," ","f","o","r"," ","p","l","a","n","n","e","d"," ","d","e","p","a","r","t","u","r","e"," ","t","i","m","e">>)]
        ELSE analysis
      recategorise(score, original_category) ==
        IF metar # None
        THEN IF score >= 6 THEN "SEVERE"
             ELSE IF score >= 3 \/ original_category = "SIGNIFICANT"
             THEN "SIGNIFICANT"
             ELSE IF original_category = "SEVERE" THEN "SEVERE"
             ELSE original_category
        ELSE IF score >= 6 THEN "SEVERE"
             ELSE IF score >= 3 THEN "SIGNIFICANT"
             ELSE "CLEAR"
      sources_str(sources_used) ==
        IF sources_used = <<>> THEN <<"Limited data">> ELSE sources_used
      \* original_category is the category as it stands after the METAR
      \* step; the later steps do not touch it
      finish(analysis) ==
        [analysis EXCEPT
           !.category = recategorise(analysis.severity_score, @),
           !.summary = @ \o <<"(Sources:">> \o sources_str(analysis.sources_used)]
  IN  IF taf_data.raised \/ pirep_data.raised
      THEN [raised |-> TRUE, value |-> analysis0]
      ELSE [raised |-> FALSE,
            value |-> finish(with_time(with_pirep(with_taf(
                        with_metar(analysis0)))))]

(***************************************************************************)
(* Surface observations handed to the classifier.  A present-weather group *)
(* is an intensity prefix, a descriptor and a phenomenon code, as in the   *)
(* tables of AviationWeatherParser; wxString is the groups joined by       *)
(* blanks.                                                                 *)
(***************************************************************************)
WxGroup(intensity, descriptor, phenomenon) ==
  [intensity |-> intensity, descriptor |-> descriptor, phenomenon |-> phenomenon]

GroupText(g) == g.intensity \o g.descriptor \o g.phenomenon

RECURSIVE GroupTexts(_)
GroupTexts(groups) ==
  IF groups = <<>> THEN <<>>
  ELSE <<GroupText(Head(groups))>> \o GroupTexts(Tail(groups))

wxString(groups) == Join(GroupTexts(groups))

WxGroups ==
  { WxGroup(<<"-">>, <<>>, <<"R","A">>),
    WxGroup(<<>>,    <<>>, <<"R","A">>),
    WxGroup(<<"+">>, <<>>, <<"R","A">>),
    WxGroup(<<"+">>, <<>>, <<"S","N">>),
    WxGroup(<<>>,    <<"T","S">>, <<"R","A">>),
    WxGroup(<<>>,    <<>>, <<"T","S">>),
    WxGroup(<<"-">>, <<"S","H">>, <<"R","A">>),
    WxGroup(<<"+">>, <<"S","H">>, <<"R","A">>),
    WxGroup(<<>>,    <<"F","Z">>, <<"F","G">>),
    WxGroup(<<>>,    <<>>, <<"B","R">>) }

WxReports ==
  {<<>>} \cup { <<g>> : g \in WxGroups }
         \cup { << WxGroup(<<"-">>, <<>>, <<"R","A">>), WxGroup(<<>>, <<>>, <<"B","R">>) >>,
                << WxGroup(<<"-">>, <<>>, <<"R","A">>), WxGroup(<<"+">>, <<>>, <<"S","N">>) >>,
                << WxGroup(<<>>, <<>>, <<"T","S">>), WxGroup(<<>>, <<>>, <<"R","A">>) >> }

FlightCategories == {"VFR", "MVFR", "IFR", "LIFR", "UNKNOWN"}

Visibilities == {None} \cup { Some(v) : v \in {0, 1, 3, 10} }

Ceilings == {None} \cup { Some(c) : c \in {400, 500, 800, 1000} }

\* a gust is part of the wind group, so it is only present with a speed
Winds ==
  {[wind_speed |-> None, wind_gust |-> None]}
  \cup { [wind_speed |-> Some(s), wind_gust |-> g] :
           s \in {14, 15, 25, 35}, g \in {None, Some(24), Some(34), Some(40)} }

\* WeatherService._parse_metar: the fields the analyzer reads
_parse_metar(fltCat, visib, ceiling, wind, groups) ==
  [flight_category |-> fltCat, visibility |-> visib, ceiling |-> ceiling,
   wind_speed |-> wind.wind_speed, wind_gust |-> wind.wind_gust,
   weather_conditions |-> wxString(groups)]

(***************************************************************************)
(* Forecasts and pilot reports                                             *)
(***************************************************************************)
TafTexts ==
  { \* TAF KJFK P6SM SKC
    <<"T","A","F"," ","K","J","F","K"," ","P","6","S","M"," ","S","K","C">>,
    \* TAF KJFK TEMPO TSRA
    <<"T","A","F"," ","K","J","F","K"," ","T","E","M","P","O"," ","T","S","R","A">>,
    \* TAF KJFK BECMG BR
    <<"T","A","F"," ","K","J","F","K"," ","B","E","C","M","G"," ","B","R">>,
    \* TAF KJFK TEMPO SKC
    <<"T","A","F"," ","K","J","F","K"," ","T","E","M","P","O"," ","S","K","C">> }

\* WeatherService._parse_taf: None when nothing was fetched
Tafs ==
  {None, Some([raw_text |-> None])}
  \cup { Some([raw_text |-> Some(text)]) : text \in TafTexts }

PirepTexts ==
  { \* UA /OV JFK /TB MOD /IC LGT
    <<"U","A"," ","/","O","V"," ","J","F","K"," ","/","T","B"," ","M","O","D"," ","/","I","C"," ","L","G","T">>,
    \* UA /RM MOD TURB
    <<"U","A"," ","/","R","M"," ","M","O","D"," ","T","U","R","B">>,
    \* UA /RM smooth ride
    <<"U","A"," ","/","R","M"," ","s","m","o","o","t","h"," ","r","i","d","e">>,
    \* UA /RM LGT ICE
    <<"U","A"," ","/","R","M"," ","L","G","T"," ","I","C","E">>,
    \* UA /TB MOD CAT /IC LGT RIME
    <<"U","A"," ","/","T","B"," ","M","O","D"," ","C","A","T"," ","/","I","C"," ","L","G","T"," ","R","I","M","E">> }

(***************************************************************************)
(* app.parse_raw: the patterns of the free-text fields of a pilot report    *)
(***************************************************************************)
RECURSIVE lstrip(_)
lstrip(text) == IF text # <<>> /\ Head(text) = " " THEN lstrip(Tail(text))
                ELSE text

RECURSIVE rstrip(_)
rstrip(text) == IF text # <<>> /\ text[Len(text)] = " "
                THEN rstrip(SubSeq(text, 1, Len(text) - 1))
                ELSE text

strip(text) == rstrip(lstrip(text))

\* re.search(marker + r"\s*([^/]+)", raw).group(1).strip(): the text after
\* the first marker that is followed by a character other than "/", up to
\* the next "/"; None when there is no match
Search(marker, raw) ==
  LET n == Len(marker)
      starts == { i \in 1..(Len(raw) - n) :
                    /\ SubSeq(raw, i, i + n - 1) = marker
                    /\ raw[i + n] # "/" }
      start == CHOOSE i \in starts : \A j \in starts : i <= j
      stops == { j \in (start + n)..Len(raw) : raw[j] = "/" }
      stop == IF stops = {} THEN Len(raw)
              ELSE (CHOOSE j \in stops : \A k \in stops : j <= k) - 1
  IN  IF starts = {} THEN None
      ELSE Some(strip(SubSeq(raw, start + n, stop)))

\* INTENSITY_MAP.get(value, value)
INTENSITY_MAP(value) ==
  CASE value = <<"L","G","T">> -> <<"L","i","g","h","t">>
    [] value = <<"M","O","D">> -> <<"M","o","d","e","r","a","t","e">>
    [] value = <<"S","E","V">> -> <<"S","e","v","e","r","e">>
    [] value = <<"S","V","R">> -> <<"S","e","v","e","r","e">>
    [] value = <<"E","X","T","M">> -> <<"E","x","t","r","e","m","e">>
    [] value = <<"L","G","T","-","M","O","D">> -> <<"L","i","g","h","t"," ","t","o"," ","M","o","d","e","r","a","t","e">>
    [] value = <<"M","O","D","-","S","E","V">> -> <<"M","o","d","e","r","a","t","e"," ","t","o"," ","S","e","v","e","r","e">>
    [] value = <<"N","E","G">> -> <<"N","o","n","e">>
    [] value = <<"O","C","N","L">> -> <<"O","c","c","a","s","i","o","n","a","l">>
    [] value = <<"C","O","N","S">> -> <<"C","o","n","t","i","n","u","o","u","s">>
    [] OTHER -> value

\* WeatherService._parse_pirep: None when parsing failed
Pireps ==
  {None, Some([raw_text |-> None])}
  \cup { Some([raw_text |-> Some(text)]) : text \in PirepTexts }

MaxPireps == 2

RECURSIVE Lists(_, _)
\* the lists over `elements` of length at most n
Lists(elements, n) ==
  IF n = 0 THEN {<<>>}
  ELSE LET shorter == Lists(elements, n - 1)
       IN  shorter \cup { Append(l, e) : l \in shorter, e \in elements }

PirepLists == Lists(Pireps, MaxPireps)

\* observations one of whose numeric fields holds a value that is no number
MistypedMetars ==
  { [m EXCEPT ![field] = Mistyped] :
      m \in { _parse_metar(fltCat, visib, ceiling, wind, <<>>) :
                fltCat \in {"VFR", "MVFR", "IFR"},
                visib \in {None, Some(3)},
                ceiling \in {None, Some(800)},
                wind \in { [wind_speed |-> None, wind_gust |-> None],
                           [wind_speed |-> Some(14), wind_gust |-> None],
                           [wind_speed |-> Some(25), wind_gust |-> Some(34)] } },
      field \in {"visibility", "ceiling", "wind_speed", "wind_gust"} }

\* observations decoded from the raw text alone: no upstream flight
\* category comes with them, which _determine_category reads as 'UNKNOWN'
\* KJFK 121851Z 18012G20KT 3SM -RA BKN008 OVC015 22/19 A2992
LightRainLowCeiling ==
  _parse_metar("UNKNOWN", Some(3), Some(800),
               [wind_speed |-> Some(12), wind_gust |-> Some(20)],
               << WxGroup(<<"-">>, <<>>, <<"R","A">>) >>)

\* KXXX 010000Z 00000KT 10SM CLR 15/10 A3000
CalmAndClear ==
  _parse_metar("UNKNOWN", Some(10), None,
               [wind_speed |-> Some(0), wind_gust |-> None], <<>>)

ScenarioMetars == {LightRainLowCeiling, CalmAndClear}

Metars ==
  { _parse_metar(fltCat, visib, ceiling, wind, groups) :
      fltCat \in FlightCategories,
      visib \in {None, Some(0), Some(3)},
      ceiling \in {None, Some(800)},
      wind \in { [wind_speed |-> None, wind_gust |-> None],
                 [wind_speed |-> Some(14), wind_gust |-> None],
                 [wind_speed |-> Some(25), wind_gust |-> Some(34)] },
      groups \in { <<>>, << WxGroup(<<"-">>, <<>>, <<"R","A">>) >> } }

(***************************************************************************)
(* Route aggregator                                                        *)
(***************************************************************************)
RECURSIVE Sum(_)
Sum(seq) == IF seq = <<>> THEN 0 ELSE Head(seq) + Sum(Tail(seq))

RECURSIVE Max(_)
Max(seq) == IF Len(seq) = 1 THEN seq[1]
            ELSE LET m == Max(Tail(seq))
                 IN  IF Head(seq) >= m THEN Head(seq) ELSE m

RECURSIVE Concat(_)
Concat(seqs) == IF seqs = <<>> THEN <<>> ELSE Head(seqs) \o Concat(Tail(seqs))

\* the words of a text in every order
Shuffles(words) ==
  { [k \in 1..Len(words) |-> words[order[k]]] :
      order \in { f \in [1..Len(words) -> 1..Len(words)] :
                    \A i, j \in 1..Len(words) : i # j => f[i] # f[j] } }

RECURSIVE Ascending(_)
\* the elements of a set of numbers in ascending order
Ascending(S) ==
  IF S = {} THEN <<>>
  ELSE LET least == CHOOSE x \in S : \A y \in S : x <= y
       IN  <<least>> \o Ascending(S \ {least})

\* list(set(items)): the distinct items in an order the runtime chooses
SetOrders(items) ==
  LET S == { items[i] : i \in 1..Len(items) }
  IN  { order \in [1..Cardinality(S) -> S] :
          \A i, j \in 1..Cardinality(S) : i # j => order[i] # order[j] }

_generate_route_summary(route, analyses, category) ==
  IF category = "CLEAR"
  THEN <<route[1], route[Len(route)], "generally good conditions">>
  ELSE IF category = "SIGNIFICANT"
  THEN <<route[1], route[Len(route)], "marginal conditions requiring monitoring">>
  ELSE <<route[1], route[Len(route)], "significant weather challenges">>

_generate_route_recommendations(category, critical_airports) ==
  LET by_category ==
        IF category = "SEVERE"
        THEN <<"Consider delaying departure until weather improves",
               "File for multiple alternate airports",
               "Carry additional fuel for possible diversions">>
        ELSE IF category = "SIGNIFICANT"
        THEN <<"Monitor weather updates throughout flight",
               "Review alternate airports at critical points">>
        ELSE <<>>
      attention ==
        IF critical_airports # <<>>
        THEN <<"Pay special attention to conditions at:">>
             \o [i \in 1..Len(critical_airports) |-> critical_airports[i].airport]
        ELSE <<>>
  IN  by_category \o attention
      \o <<"Check NOTAMs for all airports and waypoints",
           "Review current PIREPs for route conditions">>

\* hazard_order is the order in which list(set(all_hazards)) yields the
\* distinct hazards.
generate_flight_briefing(data, route, hazard_order) ==
  LET analysed(i) == route[i] \in DOMAIN data /\ data[route[i]].metar # None
      included == Ascending({ i \in 1..Len(route) : analysed(i) })
      analysis(i) == data[route[i]].analysis
      category(i) == analysis(i).category
      severity_scores ==
        [k \in 1..Len(included) |-> analysis(included[k]).severity_score]
      critical ==
        Ascending({ i \in 1..Len(route) :
                      analysed(i) /\ category(i) \in {"SIGNIFICANT", "SEVERE"} })
      critical_airports ==
        [k \in 1..Len(critical) |->
           [airport |-> route[critical[k]],
            category |-> category(critical[k]),
            issues |-> analysis(critical[k]).hazards]]
      overall_category ==
        IF severity_scores # <<>>
        THEN LET max_severity == Max(severity_scores)
                 total == Sum(severity_scores)
                 count == Len(severity_scores)
             IN  IF max_severity >= 6 \/ total >= 4 * count THEN "SEVERE"
                 ELSE IF max_severity >= 3 \/ total >= 2 * count
                 THEN "SIGNIFICANT"
                 ELSE "CLEAR"
        ELSE "CLEAR"
  IN  [route_summary |-> _generate_route_summary(route, data, overall_category),
       overall_category |-> overall_category,
       critical_airports |-> critical_airports,
       route_hazards |-> hazard_order,
       recommendations |->
         _generate_route_recommendations(overall_category, critical_airports),
       weather_trend |-> "STABLE"]

\* The hazards of the first airport of the route alone.
all_hazards_of_departure(data, route) ==
  IF route[1] \in DOMAIN data /\ data[route[1]].metar # None
  THEN data[route[1]].analysis.hazards ELSE <<>>

\* all_hazards: the hazards of airport_analyses.values(), a dict keyed by
\* airport in order of first insertion
all_hazards(data, route) ==
  LET first == Ascending({ i \in 1..Len(route) :
                  /\ route[i] \in DOMAIN data /\ data[route[i]].metar # None
                  /\ \A j \in 1..(i - 1) : route[j] # route[i] })
  IN  Concat([k \in 1..Len(first) |-> data[route[first[k]]].analysis.hazards])

(***************************************************************************)
(* Narrative synthesizer (nlp_analyzer.AviationNLPAnalyzer).  A line of    *)
(* text is kept as the tuple of its fixed wording and the names it quotes; *)
(* an average is kept as the sum and the count it is the quotient of.      *)
(***************************************************************************)
\* the comparisons of _extract_weather_conditions raise TypeError on a
\* value that is no number
ConditionsRaise(metar) ==
  \E field \in {"visibility", "ceiling", "wind_speed", "wind_gust"} :
    metar[field] = Mistyped

_extract_weather_conditions(metar) ==
  LET low_visibility ==
        IF metar.visibility # None /\ metar.visibility[1] < 3
        THEN << [type |-> "low_visibility",
                 severity |-> IF metar.visibility[1] < 1
                              THEN "critical" ELSE "moderate",
                 value |-> metar.visibility] >>
        ELSE <<>>
      low_ceiling ==
        IF metar.ceiling # None /\ metar.ceiling[1] # 0
           /\ metar.ceiling[1] < 1000
        THEN << [type |-> "low_ceiling",
                 severity |-> IF metar.ceiling[1] < 500
                              THEN "critical" ELSE "moderate",
                 value |-> metar.ceiling] >>
        ELSE <<>>
      wind_speed == IF metar.wind_speed = None THEN 0 ELSE metar.wind_speed[1]
      wind_gust == IF metar.wind_gust = None \/ metar.wind_gust = Some(0)
                   THEN wind_speed ELSE metar.wind_gust[1]
      strong_winds ==
        IF wind_speed > 15 \/ wind_gust > 20
        THEN << [type |-> "strong_winds",
                 severity |-> IF wind_gust > 35 THEN "critical" ELSE "moderate",
                 value |-> Some(wind_gust)] >>
        ELSE <<>>
      wx_string == upper(metar.weather_conditions)
      thunderstorms ==
        IF In(<<"T","S">>, wx_string)
        THEN << [type |-> "thunderstorms", severity |-> "critical",
                 value |-> None] >>
        ELSE <<>>
      icing ==
        IF In(<<"F","Z">>, wx_string)
        THEN << [type |-> "icing", severity |-> "critical", value |-> None] >>
        ELSE <<>>
  IN  low_visibility \o low_ceiling \o strong_winds \o thunderstorms \o icing

RECURSIVE CountOf(_, _)
\* hazard_counts[type]
CountOf(type, entries) ==
  IF entries = <<>> THEN 0
  ELSE (IF Head(entries).condition.type = type THEN 1 ELSE 0)
       + CountOf(type, Tail(entries))

\* sorted(hazard_counts.items(), key=count, reverse=True)[:3]: a stable
\* sort of the types, which a dict keeps in order of first occurrence
dominant_hazards(entries) ==
  LET first == { i \in 1..Len(entries) :
                   \A j \in 1..(i - 1) :
                     entries[j].condition.type # entries[i].condition.type }
      count(i) == CountOf(entries[i].condition.type, entries)
      before(i) == { j \in first : \/ count(j) > count(i)
                                   \/ count(j) = count(i) /\ j < i }
      place(k) == CHOOSE i \in first : Cardinality(before(i)) = k - 1
      shown == IF Cardinality(first) < 3 THEN Cardinality(first) ELSE 3
  IN  [k \in 1..shown |->
         [type |-> entries[place(k)].condition.type, count |-> count(place(k))]]

_analyze_route_conditions(data, route) ==
  LET included == Ascending({ i \in 1..Len(route) :
                    route[i] \in DOMAIN data /\ data[route[i]].metar # None })
      airport(k) == route[included[k]]
      category(k) == data[airport(k)].analysis.category
      hazards(k) == _extract_weather_conditions(data[airport(k)].metar[1])
      entries ==
        Concat([k \in 1..Len(included) |->
                  [h \in 1..Len(hazards(k)) |->
                     [airport |-> airport(k), condition |-> hazards(k)[h]]]])
      critical(entry) == entry.condition.severity = "critical"
      moderate(entry) == entry.condition.severity = "moderate"
      with_category(c) ==
        LET at == Ascending({ k \in 1..Len(included) : category(k) = c })
        IN  [n \in 1..Len(at) |-> airport(at[n])]
      severity_scores ==
        [k \in 1..Len(included) |-> data[airport(k)].analysis.severity_score]
  IN  [critical_conditions |-> SelectSeq(entries, critical),
       moderate_conditions |-> SelectSeq(entries, moderate),
       airports_by_severity |->
         [severe |-> with_category("SEVERE"),
          significant |-> with_category("SIGNIFICANT"),
          clear |-> with_category("CLEAR")],
       dominant_hazards |-> dominant_hazards(entries),
       route_statistics |->
         [severity_sum |-> Sum(severity_scores),
          severity_count |-> Len(severity_scores),
          max_severity |-> IF severity_scores = <<>> THEN 0
                           ELSE Max(severity_scores),
          critical_airport_count |-> Len(with_category("SEVERE")),
          total_airports |-> Len(route)]]

_generate_priority_summary(analysis, route, flight_briefing) ==
  LET route_str == <<route[1], "to", route[Len(route)]>>
                   \o (IF Len(route) > 2 THEN <<"via waypoint(s)">> ELSE <<>>)
      critical_count == Len(analysis.critical_conditions)
      severe == analysis.airports_by_severity.severe
      stats == analysis.route_statistics
  IN  IF flight_briefing.overall_category = "SEVERE" \/ critical_count > 0
      THEN <<"CAUTION">> \o route_str
           \o (IF critical_count > 0
               THEN <<"Critical conditions include">> ELSE <<>>)
           \o (IF severe # <<>>
               THEN <<"Airports requiring special attention">> ELSE <<>>)
           \o <<"Consider alternate routing or delaying departure">>
      ELSE IF flight_briefing.overall_category = "SIGNIFICANT"
      THEN <<"MONITOR">> \o route_str
           \o (IF analysis.dominant_hazards # <<>>
               THEN <<"Primary concern is", analysis.dominant_hazards[1].type>>
               ELSE <<>>)
           \o (IF analysis.moderate_conditions # <<>>
               THEN <<"Monitor weather factor(s)">> ELSE <<>>)
           \o <<"Flight feasible with increased vigilance">>
      ELSE <<"FAVORABLE">> \o route_str
           \o (IF analysis.moderate_conditions # <<>>
               THEN <<"Minor weather factors noted">> ELSE <<>>)
           \o (IF stats.severity_sum < stats.severity_count
                  \/ stats.severity_count = 0
               THEN <<"Excellent conditions for VFR flight operations">>
               ELSE <<"Good conditions with standard weather monitoring">>)

\* the lines one critical condition adds
CriticalLines(entry) ==
  IF entry.condition.type = "thunderstorms"
  THEN << <<"AVOID: Thunderstorms at", entry.airport>>,
          <<"Monitor weather radar continuously">> >>
  ELSE IF entry.condition.type = "low_visibility"
  THEN << <<"VISIBILITY:", entry.airport>>,
          <<"Brief instrument approach procedures and minimums">> >>
  ELSE IF entry.condition.type = "low_ceiling"
  THEN << <<"CEILING:", entry.airport>> >>
  ELSE IF entry.condition.type = "strong_winds"
  THEN << <<"WINDS:", entry.airport>>,
          <<"Consider airports with more favorable runway orientations">> >>
  ELSE <<>>

\* recommendations[:8]
FirstEight(lines) == SubSeq(lines, 1, IF Len(lines) < 8 THEN Len(lines) ELSE 8)

\* the list before the final slice: the lines in the order they are made
AllRecommendations(analysis) ==
  LET critical == analysis.critical_conditions
      per_condition ==
        Concat([k \in 1..Len(critical) |-> CriticalLines(critical[k])])
      severe_airports == analysis.airports_by_severity.severe
      focus ==
        IF severe_airports = <<>> THEN <<>>
        ELSE IF Len(severe_airports) = 1
        THEN << <<"FOCUS:", severe_airports[1]>> >>
        ELSE << <<"CRITICAL AIRPORTS:">> \o severe_airports >>
      stats == analysis.route_statistics
      fuel ==
        IF stats.severity_count > 0
           /\ stats.severity_sum > 3 * stats.severity_count
        THEN << <<"FUEL: Carry additional fuel">>,
                <<"ALTERNATES: File multiple alternate airports">> >>
        ELSE <<>>
      equipment ==
        IF \E k \in 1..Len(critical) : critical[k].condition.type = "icing"
        THEN << <<"EQUIPMENT: Verify anti-ice/de-ice systems operational">>,
                <<"PIREPS: Monitor pilot reports for icing conditions">> >>
        ELSE <<>>
      communication ==
        IF stats.critical_airport_count > 0
        THEN << <<"COMMUNICATION: Establish contact with flight operations">>,
                <<"UPDATES: Request weather updates every 30 minutes">> >>
        ELSE <<>>
      made == per_condition \o focus \o fuel \o equipment \o communication
  IN  IF made = <<>>
      THEN << <<"CONDITIONS: Weather favorable for planned flight operations">>,
              <<"MONITORING: Continue standard weather monitoring procedures">>,
              <<"EXECUTION: Proceed with normal flight planning and execution">> >>
      ELSE made

\* The list returned without the final slice: every line that was made.
_generate_pilot_recommendations_unsliced(analysis, route, flight_briefing) ==
  AllRecommendations(analysis)

_generate_pilot_recommendations(analysis, route, flight_briefing) ==
  FirstEight(AllRecommendations(analysis))

\* A risk tier that takes two critical conditions for MODERATE too.
_assess_flight_risk_late(analysis) ==
  LET critical_count == Len(analysis.critical_conditions)
      stats == analysis.route_statistics
      avg_at_least(n) == /\ stats.severity_count > 0
                         /\ stats.severity_sum >= n * stats.severity_count
  IN  IF critical_count >= 2 \/ avg_at_least(6) THEN "HIGH"
      ELSE IF critical_count >= 2 \/ avg_at_least(3) THEN "MODERATE"
      ELSE IF avg_at_least(1) THEN "LOW"
      ELSE "MINIMAL"

\* avg_severity >= n is severity_sum >= n * severity_count; the average of
\* no scores is 0
_assess_flight_risk(analysis) ==
  LET critical_count == Len(analysis.critical_conditions)
      stats == analysis.route_statistics
      avg_at_least(n) == /\ stats.severity_count > 0
                         /\ stats.severity_sum >= n * stats.severity_count
  IN  IF critical_count >= 2 \/ avg_at_least(6) THEN "HIGH"
      ELSE IF critical_count >= 1 \/ avg_at_least(3) THEN "MODERATE"
      ELSE IF avg_at_least(1) THEN "LOW"
      ELSE "MINIMAL"

_extract_decision_factors(analysis) ==
  LET critical == analysis.critical_conditions
      factors ==
        [k \in 1..Len(critical) |->
           <<critical[k].airport, critical[k].condition.type>>]
        \o (IF analysis.route_statistics.critical_airport_count > 0
            THEN << <<"airport(s) with severe conditions">> >> ELSE <<>>)
        \o (IF analysis.dominant_hazards # <<>>
            THEN << <<analysis.dominant_hazards[1].type,
                      "affecting location(s)">> >>
            ELSE <<>>)
  IN  SubSeq(factors, 1, IF Len(factors) < 5 THEN Len(factors) ELSE 5)

\* Any exception is answered with the fixed fallback.
generate_comprehensive_summary(data, route, flight_briefing) ==
  LET raises == \E i \in 1..Len(route) :
                  /\ route[i] \in DOMAIN data
                  /\ data[route[i]].metar # None
                  /\ ConditionsRaise(data[route[i]].metar[1])
      conditions_analysis == _analyze_route_conditions(data, route)
  IN  IF raises
      THEN [executive_summary |->
              <<"Weather analysis unavailable due to processing error.">>,
            pilot_recommendations |->
              << <<"Contact flight operations for manual weather flight_briefing.">> >>,
            risk_assessment |-> "UNKNOWN",
            decision_factors |-> <<>>]
      ELSE [executive_summary |->
              _generate_priority_summary(conditions_analysis, route, flight_briefing),
            pilot_recommendations |->
              _generate_pilot_recommendations(conditions_analysis, route,
                                              flight_briefing),
            risk_assessment |-> _assess_flight_risk(conditions_analysis),
            decision_factors |-> _extract_decision_factors(conditions_analysis)]

(***************************************************************************)
(* WeatherService._parse_metar: visibility and ceiling of the upstream     *)
(* record.  A JSON value is kept with its type, so that a string and a     *)
(* number are told apart.                                                  *)
(***************************************************************************)
JsonNull == [type |-> "null", text |-> <<>>, number |-> 0]

JsonString(text) == [type |-> "string", text |-> text, number |-> 0]

JsonNumber(number) == [type |-> "number", text |-> <<>>, number |-> number]

Digits == <<"0","1","2","3","4","5","6","7","8","9">>

IsDigit(char) == \E d \in 1..10 : Digits[d] = char

DigitValue(char) == (CHOOSE d \in 1..10 : Digits[d] = char) - 1

RECURSIVE int(_)
\* int(text) for a text of digits
int(text) ==
  IF text = <<>> THEN 0
  ELSE 10 * int(SubSeq(text, 1, Len(text) - 1)) + DigitValue(text[Len(text)])

\* A conversion without the branch for "10+": float("10+") fails.
parse_visibility_unsigned(visib) ==
  IF visib.type = "string" /\ visib.text # <<>>
  THEN IF \A k \in 1..Len(visib.text) : IsDigit(visib.text[k])
       THEN Some(int(visib.text)) ELSE None
  ELSE IF visib.type = "string" THEN Mistyped
  ELSE IF visib.type = "number" THEN Some(visib.number)
  ELSE None

\* lines 263-270: "10+" becomes 10.0, any other non-empty string goes
\* through float() and becomes None when that fails; an empty string and a
\* number are passed on as they are.  10.0 and 10 are the same number.
parse_visibility(visib) ==
  IF visib.type = "string" /\ visib.text = <<"1","0","+">> THEN Some(10)
  ELSE IF visib.type = "string" /\ visib.text # <<>>
  THEN IF \A k \in 1..Len(visib.text) : IsDigit(visib.text[k])
       THEN Some(int(visib.text)) ELSE None
  ELSE IF visib.type = "string" THEN Mistyped
  ELSE IF visib.type = "number" THEN Some(visib.number)
  ELSE None

\* lines 275-282: without a ceiling of its own the record takes the base of
\* the first BKN or OVC layer of the list
derive_ceiling(ceiling, clouds) ==
  LET layers == { k \in 1..Len(clouds) : clouds[k].cover \in {"BKN", "OVC"} }
      first == CHOOSE k \in layers : \A j \in layers : k <= j
  IN  IF (ceiling = None \/ ceiling = Some(0)) /\ layers # {}
      THEN Some(clouds[first].base)
      ELSE ceiling

\* the whole of _parse_metar on an upstream record
parse_metar_json(record) ==
  _parse_metar(record.fltCat, parse_visibility(record.visib),
               derive_ceiling(record.ceiling, record.clouds),
               [wind_speed |-> record.wspd, wind_gust |-> record.wgst],
               record.wxString)

MaxLayers == 3

CloudLayers ==
  { [cover |-> cover, base |-> base] :
      cover \in {"FEW", "SCT", "BKN", "OVC"}, base \in {800, 1500} }

UpstreamVisibilities ==
  { JsonNull, JsonNumber(10), JsonNumber(3),
    JsonString(<<"1","0","+">>), JsonString(<<"1","0">>),
    JsonString(<<"M">>) }

UpstreamMetars ==
  { [fltCat |-> "VFR", visib |-> visib, ceiling |-> ceiling,
     clouds |-> clouds, wspd |-> Some(14), wgst |-> None, wxString |-> <<>>] :
      visib \in UpstreamVisibilities, ceiling \in {None, Some(1200)},
      clouds \in Lists(CloudLayers, MaxLayers) }

(***************************************************************************)
(* AviationWeatherParser.parse_metar: station, wind and visibility of the  *)
(* raw text.  The branches for the other components leave these three      *)
(* alone.                                                                  *)
(***************************************************************************)
RECURSIVE split(_)
\* text.strip().split(): the words between blanks
split(text) ==
  LET stripped == lstrip(text)
      blanks == { k \in 1..Len(stripped) : stripped[k] = " " }
      end == IF blanks = {} THEN Len(stripped)
             ELSE (CHOOSE k \in blanks : \A j \in blanks : k <= j) - 1
  IN  IF stripped = <<>> THEN <<>>
      ELSE <<SubSeq(stripped, 1, end)>>
           \o split(SubSeq(stripped, end + 1, Len(stripped)))

\* the n characters of text from position from are digits
DigitsAt(text, from, n) ==
  /\ from + n - 1 <= Len(text)
  /\ \A k \in from..(from + n - 1) : IsDigit(text[k])

\* the characters of text from position from begin with literal
LiteralAt(text, from, literal) ==
  /\ from + Len(literal) - 1 <= Len(text)
  /\ SubSeq(text, from, from + Len(literal) - 1) = literal

\* the ways r'(\d{3})(\d{2,3})(G(\d{2,3}))?KT' matches at the start of text:
\* the lengths of the speed and of the gust (0 without a gust)
WindMatches(text) ==
  { m \in {2, 3} \X {0, 2, 3} :
      /\ DigitsAt(text, 1, 3)
      /\ DigitsAt(text, 4, m[1])
      /\ IF m[2] = 0
         THEN LiteralAt(text, 4 + m[1], <<"K","T">>)
         ELSE /\ LiteralAt(text, 4 + m[1], <<"G">>)
              /\ DigitsAt(text, 5 + m[1], m[2])
              /\ LiteralAt(text, 5 + m[1] + m[2], <<"K","T">>) }

\* directions[round(degrees / 45) % 8]; no whole number of degrees lies
\* halfway between two multiples of 45
_degrees_to_compass(degrees) ==
  <<"north", "northeast", "east", "southeast", "south", "southwest", "west",
    "northwest">>[(((2 * degrees + 45) \div 90) % 8) + 1]

\* the wording of the wind: its fixed words and the names it quotes
_describe_wind(direction, speed, gust) ==
  IF speed = 0 THEN <<"calm winds">>
  ELSE <<"winds from", _degrees_to_compass(direction)>>
       \o (IF gust # None /\ gust[1] # 0 /\ gust[1] > speed
           THEN <<"gusting">> ELSE <<>>)

\* A decoder that describes calm wind as it describes a wind from 0 degrees.
_parse_wind_undescribed(wind_str) ==
  IF wind_str = <<"0","0","0","0","0","K","T">>
  THEN Some([direction |-> Some(0), speed |-> Some(0), gust |-> None,
             description |-> <<"winds from", _degrees_to_compass(0)>>,
             variable |-> None])
  ELSE None

\* a dictionary without the key 'gust' or 'variable' reads as one whose
\* gust or variable is None
_parse_wind(wind_str) ==
  LET matches == WindMatches(wind_str)
      \* the greedy quantifiers take the longest speed, then the longest gust
      match == CHOOSE m \in matches :
                 \A o \in matches :
                   m[1] > o[1] \/ (m[1] = o[1] /\ m[2] >= o[2])
      direction == int(SubSeq(wind_str, 1, 3))
      speed == int(SubSeq(wind_str, 4, 3 + match[1]))
      gust == IF match[2] = 0 THEN None
              ELSE Some(int(SubSeq(wind_str, 5 + match[1],
                                   4 + match[1] + match[2])))
  IN  IF wind_str = <<"0","0","0","0","0","K","T">>
      THEN Some([direction |-> Some(0), speed |-> Some(0), gust |-> None,
                 description |-> <<"calm winds">>, variable |-> None])
      ELSE IF matches # {}
      THEN Some([direction |-> Some(direction), speed |-> Some(speed),
                 gust |-> gust,
                 description |-> _describe_wind(direction, speed, gust),
                 variable |-> None])
      ELSE None

RECURSIVE replace(_, _)
\* text.replace(old, ''), for an old of two characters
replace(text, old) ==
  IF Len(text) < 2 THEN text
  ELSE IF SubSeq(text, 1, 2) = old THEN replace(SubSeq(text, 3, Len(text)), old)
  ELSE <<Head(text)>> \o replace(Tail(text), old)

_parse_visibility(vis_str) ==
  IF In(<<"S","M">>, vis_str)
  THEN replace(vis_str, <<"S","M">>)
       \o <<" ","s","t","a","t","u","t","e"," ","m","i","l","e","s">>
  ELSE vis_str

\* r'\d{1,2}SM|\d{1,2}/\d{1,2}SM' matches at the start of part (the third
\* alternative holds a blank, which no word has)
IsVisibility(part) ==
  \E n \in {1, 2} :
    /\ DigitsAt(part, 1, n)
    /\ \/ LiteralAt(part, n + 1, <<"S","M">>)
       \/ \E d \in {1, 2} :
            /\ LiteralAt(part, n + 1, <<"/">>)
            /\ DigitsAt(part, n + 2, d)
            /\ LiteralAt(part, n + 2 + d, <<"S","M">>)

IsAlpha(char) == char \in {"A","B","C","D","E","F","G","H","I","J","K","L","M",
                           "N","O","P","Q","R","S","T","U","V","W","X","Y","Z"}

\* self.weather_phenomena, in the order of the dictionary
weather_phenomena ==
  <<<<<<"R","A">>, "rain">>,
    <<<<"D","Z">>, "drizzle">>,
    <<<<"S","N">>, "snow">>,
    <<<<"S","G">>, "snow grains">>,
    <<<<"I","C">>, "ice crystals">>,
    <<<<"P","L">>, "ice pellets">>,
    <<<<"G","R">>, "hail">>,
    <<<<"G","S">>, "small hail">>,
    <<<<"U","P">>, "unknown precipitation">>,
    <<<<"F","G">>, "fog">>,
    <<<<"B","R">>, "mist">>,
    <<<<"H","Z">>, "haze">>,
    <<<<"D","U">>, "dust">>,
    <<<<"S","A">>, "sand">>,
    <<<<"F","U">>, "smoke">>,
    <<<<"V","A">>, "volcanic ash">>,
    <<<<"P","Y">>, "spray">>,
    <<<<"S","Q">>, "squalls">>,
    <<<<"F","C">>, "funnel cloud">>,
    <<<<"S","S">>, "sandstorm">>,
    <<<<"D","S">>, "duststorm">>,
    <<<<"P","O">>, "dust whirls">>,
    <<<<"T","S">>, "thunderstorm">>>>

\* self.descriptors, in the order of the dictionary
descriptors ==
  <<<<<<"M","I">>, "shallow">>,
    <<<<"P","R">>, "partial">>,
    <<<<"B","C">>, "patches">>,
    <<<<"D","R">>, "drifting">>,
    <<<<"B","L">>, "blowing">>,
    <<<<"S","H">>, "showers">>,
    <<<<"F","Z">>, "freezing">>,
    <<<<"R","E">>, "recent">>>>

\* self.cloud_types
cloud_types ==
  <<<<<<"F","E","W">>, "few clouds">>,
    <<<<"S","C","T">>, "scattered clouds">>,
    <<<<"B","K","N">>, "broken clouds">>,
    <<<<"O","V","C">>, "overcast">>,
    <<<<"C","L","R">>, "clear">>,
    <<<<"S","K","C">>, "sky clear">>,
    <<<<"N","S","C">>, "no significant cloud">>,
    <<<<"N","C","D">>, "no cloud detected">>,
    <<<<"V","V">>, "vertical visibility">>>>


RECURSIVE lstrip_chars(_, _)
\* text.lstrip(chars): the leading characters that are in chars go
lstrip_chars(text, chars) ==
  IF text # <<>> /\ Head(text) \in chars THEN lstrip_chars(Tail(text), chars)
  ELSE text

RECURSIVE without_descriptors(_, _)
\* for desc in self.descriptors: clean_code = clean_code.replace(desc, '')
without_descriptors(text, k) ==
  IF k > Len(descriptors) THEN text
  ELSE without_descriptors(replace(text, descriptors[k][1]), k + 1)

_is_weather_phenomenon(code) ==
  LET clean_code ==
        without_descriptors(lstrip_chars(lstrip_chars(code, {"+", "-"}),
                                         {"V", "C"}), 1)
  IN  \E p \in 1..Len(weather_phenomena) :
        In(weather_phenomena[p][1], clean_code)

\* text.startswith(prefix)
startswith(text, prefix) == LiteralAt(text, 1, prefix)

RECURSIVE phenomena_from(_, _)
\* the while loop of _parse_weather_phenomenon from index i (counted from 1)
phenomena_from(code, i) ==
  IF i > Len(code) THEN <<>>
  ELSE IF i + 1 <= Len(code)
          /\ \E p \in 1..Len(weather_phenomena) :
               weather_phenomena[p][1] = SubSeq(code, i, i + 1)
  THEN <<weather_phenomena[CHOOSE p \in 1..Len(weather_phenomena) :
            weather_phenomena[p][1] = SubSeq(code, i, i + 1)][2]>>
       \o phenomena_from(code, i + 2)
  ELSE phenomena_from(code, i + 1)

\* A description is kept as its words (desc_parts) and, for a cloud layer,
\* the feet it quotes; when there are no words it is the text that is left.
_parse_weather_phenomenon(token) ==
  LET intensity == IF startswith(token, <<"-">>) THEN "light"
                   ELSE IF startswith(token, <<"+">>) THEN "heavy"
                   ELSE IF startswith(token, <<"V","C">>) THEN "in vicinity"
                   ELSE ""
      unprefixed == IF intensity = "" THEN token
                    ELSE IF intensity = "in vicinity"
                    THEN SubSeq(token, 3, Len(token))
                    ELSE Tail(token)
      described == { k \in 1..Len(descriptors) :
                       startswith(unprefixed, descriptors[k][1]) }
      descriptor == IF described = {} THEN ""
                    ELSE descriptors[CHOOSE k \in described :
                                       \A j \in described : k <= j][2]
      code == IF described = {} THEN unprefixed
              ELSE SubSeq(unprefixed, 3, Len(unprefixed))
      phenomena == phenomena_from(code, 1)
      desc_parts == (IF intensity = "" THEN <<>> ELSE <<intensity>>)
                    \o (IF descriptor = "" THEN <<>> ELSE <<descriptor>>)
                    \o phenomena
  IN  [code |-> code, intensity |-> intensity, descriptor |-> descriptor,
       phenomena |-> phenomena,
       description |-> [words |-> desc_parts, feet |-> None,
                        text |-> IF desc_parts = <<>> THEN code ELSE <<>>]]

\* the coverage r'(FEW|SCT|BKN|OVC|CLR|SKC|VV)(\d{3})' finds at the start of
\* cloud_str, with the vertical visibility or without; <<>> when none
CloudCoverage(cloud_str, covers) ==
  LET matching == { k \in 1..Len(cloud_types) :
                      /\ cloud_types[k][1] \in covers
                      /\ startswith(cloud_str, cloud_types[k][1])
                      /\ DigitsAt(cloud_str, Len(cloud_types[k][1]) + 1, 3) }
  IN  IF matching = {} THEN <<>>
      ELSE cloud_types[CHOOSE k \in matching : TRUE][1]

MetarCovers == {<<"F","E","W">>, <<"S","C","T">>, <<"B","K","N">>, <<"O","V","C">>, <<"C","L","R">>, <<"S","K","C">>, <<"V","V">>}

_parse_cloud_layer(cloud_str) ==
  LET coverage == CloudCoverage(cloud_str, MetarCovers)
      height == int(SubSeq(cloud_str, Len(coverage) + 1, Len(coverage) + 3))
                  * 100
      name == cloud_types[CHOOSE k \in 1..Len(cloud_types) :
                            cloud_types[k][1] = coverage][2]
  IN  IF coverage # <<>>
      THEN [coverage |-> coverage, height |-> Some(height),
            description |-> [words |-> <<name>>, feet |-> Some(height),
                             text |-> <<>>]]
      ELSE [coverage |-> <<>>, height |-> None,
            description |-> [words |-> <<>>, feet |-> None,
                             text |-> cloud_str]]

_parse_temperature(temp_str) ==
  IF startswith(temp_str, <<"M">>) THEN <<"-">> \o Tail(temp_str) ELSE temp_str

_parse_altimeter(alt_str) ==
  IF startswith(alt_str, <<"A">>)
  THEN SubSeq(alt_str, 2, 3) \o <<".">> \o SubSeq(alt_str, 4, Len(alt_str))
  ELSE alt_str

\* text[a:b] with Python's clipping, a and b counted from 0
Slice(text, a, b) ==
  SubSeq(text, a + 1, IF b < Len(text) THEN b ELSE Len(text))

_parse_time(time_str) ==
  IF time_str # <<>> /\ time_str[Len(time_str)] = "Z"
  THEN LET time_num == SubSeq(time_str, 1, Len(time_str) - 1)
       IN  Slice(time_num, 0, 2) \o <<"t","h"," ","a","t"," ">> \o Slice(time_num, 2, 4)
             \o <<":">> \o Slice(time_num, 4, 6) \o <<"Z">>
  ELSE time_str

\* r'M?\d{2}/M?\d{2}' matches at the start of part
IsTemperature(part) ==
  \E m \in {0, 1}, n \in {0, 1} :
    /\ m = 1 => LiteralAt(part, 1, <<"M">>)
    /\ DigitsAt(part, m + 1, 2)
    /\ LiteralAt(part, m + 3, <<"/">>)
    /\ n = 1 => LiteralAt(part, m + 4, <<"M">>)
    /\ DigitsAt(part, m + n + 4, 2)

\* part.split('/'): the texts between the slashes
RECURSIVE split_at(_, _)
split_at(text, separator) ==
  LET marks == { k \in 1..Len(text) : text[k] = separator }
      first == CHOOSE k \in marks : \A j \in marks : k <= j
  IN  IF marks = {} THEN <<text>>
      ELSE <<SubSeq(text, 1, first - 1)>>
           \o split_at(SubSeq(text, first + 1, Len(text)), separator)

RECURSIVE ExtractParts(_, _, _)
\* the loop of _extract_metar_components over the words from position i on
ExtractParts(parts, i, found) ==
  IF i > Len(parts) THEN found
  ELSE
    LET part == parts[i]
        next ==
          IF i = 1 /\ Len(part) = 4 /\ \A k \in 1..4 : IsAlpha(part[k])
          THEN [found EXCEPT !.station = part]
          ELSE IF DigitsAt(part, 1, 6) /\ LiteralAt(part, 7, <<"Z">>)
          THEN [found EXCEPT !.time = _parse_time(part)]
          ELSE IF WindMatches(part) # {} \/ part = <<"0","0","0","0","0","K","T">>
          THEN [found EXCEPT !.wind = _parse_wind(part)]
          ELSE IF DigitsAt(part, 1, 3) /\ LiteralAt(part, 4, <<"V">>)
                  /\ DigitsAt(part, 5, 3)
          THEN [found EXCEPT !.wind =
                  IF found.wind = None
                  THEN Some([direction |-> None, speed |-> None, gust |-> None,
                             description |-> <<>>, variable |-> Some(part)])
                  ELSE Some([found.wind[1] EXCEPT !.variable = Some(part)])]
          ELSE IF IsVisibility(part)
          THEN [found EXCEPT !.visibility = _parse_visibility(part)]
          ELSE IF _is_weather_phenomenon(part)
          THEN [found EXCEPT !.weather =
                  Append(found.weather, _parse_weather_phenomenon(part))]
          ELSE IF CloudCoverage(part, MetarCovers) # <<>>
          THEN [found EXCEPT !.clouds =
                  Append(found.clouds, _parse_cloud_layer(part))]
          ELSE IF IsTemperature(part)
          THEN [found EXCEPT
                  !.temperature = _parse_temperature(split_at(part, "/")[1]),
                  !.dewpoint = _parse_temperature(split_at(part, "/")[2])]
          ELSE IF LiteralAt(part, 1, <<"A">>) /\ DigitsAt(part, 2, 4)
          THEN [found EXCEPT !.altimeter = _parse_altimeter(part)]
          ELSE IF part = <<"R","M","K">>
          THEN [found EXCEPT !.remarks =
                  Join(SubSeq(parts, i + 1, Len(parts)))]
          ELSE found
    \* no earlier branch takes the word RMK, and its branch ends the loop
    IN  IF part = <<"R","M","K">> THEN next
        ELSE ExtractParts(parts, i + 1, next)

\* wind is None for the empty dictionary, a text <<>> for ''
_extract_metar_components(metar) ==
  ExtractParts(split(metar), 1,
               [station |-> <<>>, time |-> <<>>, wind |-> None,
                visibility |-> <<>>, weather |-> <<>>, clouds |-> <<>>,
                temperature |-> <<>>, dewpoint |-> <<>>, altimeter |-> <<>>,
                remarks |-> <<>>])


(***************************************************************************)
(* The simplified description: the clauses that ' | '.join(parts) puts     *)
(* together, each kept as the words that open it and the value it quotes.  *)
(***************************************************************************)
Clause(name, value) == [clause |-> name, value |-> value]

\* _describe_wind(wind) for a dictionary that is not empty: a dictionary
\* without a speed (one that holds the variation only) reads as speed 0
DescribeWind(wind) ==
  IF wind.speed = None THEN <<"calm winds">>
  ELSE _describe_wind(IF wind.direction = None THEN 0 ELSE wind.direction[1],
                      wind.speed[1], wind.gust)

\* [x['description'] for x in entries]
Descriptions(entries) == [k \in 1..Len(entries) |-> entries[k].description]

_generate_metar_simplified(found) ==
  LET parts ==
        (IF found.station # <<>>
         THEN <<Clause("Station", found.station)>> ELSE <<>>)
        \o (IF found.time # <<>>
            THEN <<Clause("observed at", found.time)>> ELSE <<>>)
        \o (IF found.wind # None
            THEN <<Clause("wind", DescribeWind(found.wind[1]))>> ELSE <<>>)
        \o (IF found.visibility # <<>>
            THEN <<Clause("visibility", found.visibility)>> ELSE <<>>)
        \o (IF found.weather # <<>>
            THEN <<Clause("weather", Descriptions(found.weather))>> ELSE <<>>)
        \o (IF found.clouds # <<>>
            THEN <<Clause("clouds", Descriptions(found.clouds))>> ELSE <<>>)
        \o (IF found.temperature # <<>> /\ found.dewpoint # <<>>
            THEN <<Clause("temperature",
                          <<found.temperature, found.dewpoint>>)>>
            ELSE <<>>)
        \o (IF found.altimeter # <<>>
            THEN <<Clause("altimeter", found.altimeter)>> ELSE <<>>)
  IN  IF parts # <<>> THEN parts
      ELSE <<Clause("No weather information available", <<>>)>>

\* A decoder that sends the empty text through the extraction as well.
parse_metar_unguarded(raw_metar_text) ==
  LET found == _extract_metar_components(raw_metar_text)
  IN  [raw |-> strip(raw_metar_text),
       simplified |-> _generate_metar_simplified(found),
       components |-> Some(found)]

\* components is None for the empty dictionary
parse_metar(raw_metar_text) ==
  IF raw_metar_text = <<>>
  THEN [raw |-> <<>>,
        simplified |-> <<Clause("No METAR data available", <<>>)>>,
        components |-> None]
  ELSE LET found == _extract_metar_components(raw_metar_text)
       IN  [raw |-> strip(raw_metar_text),
            simplified |-> _generate_metar_simplified(found),
            components |-> Some(found)]


(***************************************************************************)
(* AviationWeatherParser.parse_taf                                         *)
(***************************************************************************)
\* r'\d{4}/\d{4}' matches at the start of part
IsPeriod(part) ==
  DigitsAt(part, 1, 4) /\ LiteralAt(part, 5, <<"/">>) /\ DigitsAt(part, 6, 4)

\* start, end = period_str.split('/') raises unless there is one slash
ValidPeriodRaises(period_str) ==
  In(<<"/">>, period_str) /\ Len(split_at(period_str, "/")) # 2

\* "from {start[:2]}:{start[2:]}Z to {end[:2]}:{end[2:]}Z"
_parse_valid_period(period_str) ==
  IF In(<<"/">>, period_str)
  THEN LET start == split_at(period_str, "/")[1]
           end == split_at(period_str, "/")[2]
       IN  <<"f","r","o","m"," ">> \o Slice(start, 0, 2) \o <<":">>
             \o Slice(start, 2, Len(start)) \o <<"Z"," ","t","o"," ">>
             \o Slice(end, 0, 2) \o <<":">> \o Slice(end, 2, Len(end)) \o <<"Z">>
  ELSE period_str

_parse_time_period(time_str) ==
  IF Len(time_str) = 4
  THEN Slice(time_str, 0, 2) \o <<":">> \o Slice(time_str, 2, 4) \o <<"Z">>
  ELSE time_str

\* the test of _split_forecast_groups for a word that opens a group
OpensGroup(part) ==
  \/ \E marker \in {<<"F","M">>, <<"B","E","C","M","G">>, <<"T","E","M","P","O">>} :
       startswith(part, marker) /\ DigitsAt(part, Len(marker) + 1, 4)
  \/ IsPeriod(part)

RECURSIVE SplitGroups(_, _, _)
\* the loop of _split_forecast_groups: groups so far and the current group
SplitGroups(parts, groups, current_group) ==
  IF parts = <<>>
  THEN IF current_group # <<>> THEN Append(groups, current_group) ELSE groups
  ELSE IF OpensGroup(Head(parts))
  THEN SplitGroups(Tail(parts),
                   IF current_group # <<>> THEN Append(groups, current_group)
                   ELSE groups,
                   <<Head(parts)>>)
  ELSE SplitGroups(Tail(parts), groups, Append(current_group, Head(parts)))

_split_forecast_groups(parts) == SplitGroups(parts, <<>>, <<>>)

\* the wording of a wind: the words, and the speed and gust it quotes
WindText(wind) ==
  IF wind.description = <<"calm winds">>
  THEN [words |-> wind.description, speed |-> None, gust |-> None]
  ELSE [words |-> wind.description, speed |-> wind.speed,
        gust |-> IF Len(wind.description) = 3 THEN wind.gust ELSE None]

\* the period of a group: the word that opens the label and its time
GroupPeriod(first_part) ==
  IF startswith(first_part, <<"F","M">>)
  THEN [label |-> "From",
        time |-> _parse_time_period(SubSeq(first_part, 3, Len(first_part)))]
  ELSE IF startswith(first_part, <<"B","E","C","M","G">>)
  THEN [label |-> "Becoming",
        time |-> _parse_time_period(SubSeq(first_part, 6, Len(first_part)))]
  ELSE IF startswith(first_part, <<"T","E","M","P","O">>)
  THEN [label |-> "Temporarily",
        time |-> _parse_time_period(SubSeq(first_part, 6, Len(first_part)))]
  ELSE IF In(<<"/">>, first_part)
  THEN [label |-> "Period", time |-> _parse_valid_period(first_part)]
  ELSE [label |-> "Initial conditions", time |-> <<>>]

\* _parse_forecast_group raises where _parse_valid_period does
GroupRaises(group) ==
  /\ ~startswith(group[1], <<"F","M">>)
  /\ ~startswith(group[1], <<"B","E","C","M","G">>)
  /\ ~startswith(group[1], <<"T","E","M","P","O">>)
  /\ ValidPeriodRaises(group[1])

TafCovers == {<<"F","E","W">>, <<"S","C","T">>, <<"B","K","N">>, <<"O","V","C">>, <<"C","L","R">>, <<"S","K","C">>}

\* r'\d+SM' or r'\d{4}' matches at the start of part
IsTafVisibility(part) ==
  \/ \E n \in 1..Len(part) : DigitsAt(part, 1, n) /\ LiteralAt(part, n + 1, <<"S","M">>)
  \/ DigitsAt(part, 1, 4)

\* one condition of a group: the key of forecast['conditions'] it is stored
\* under and the description appended to the list; None for a word that
\* is no condition
GroupCondition(part) ==
  IF WindMatches(part) # {} \/ part = <<"0","0","0","0","0","K","T">>
  THEN \* the description of a wind that matched is never empty
       Some([kind |-> "wind", description |-> WindText(_parse_wind(part)[1])])
  ELSE IF IsTafVisibility(part)
  THEN Some([kind |-> "visibility", description |-> _parse_visibility(part)])
  ELSE IF _is_weather_phenomenon(part)
  THEN Some([kind |-> "weather",
             description |-> _parse_weather_phenomenon(part).description])
  ELSE IF CloudCoverage(part, TafCovers) # <<>>
  THEN Some([kind |-> "clouds",
             description |-> _parse_cloud_layer(part).description])
  ELSE None

RECURSIVE GroupConditions(_)
\* the list conditions of _parse_forecast_group for the words it loops over
GroupConditions(words) ==
  IF words = <<>> THEN <<>>
  ELSE (IF GroupCondition(Head(words)) = None THEN <<>>
        ELSE <<GroupCondition(Head(words))[1]>>)
       \o GroupConditions(Tail(words))

\* forecast['conditions'][kind]: the description stored last under the key
LastOf(kind, conditions) ==
  LET at == { k \in 1..Len(conditions) : conditions[k].kind = kind }
  IN  IF at = {} THEN None
      ELSE Some(conditions[CHOOSE k \in at : \A j \in at : k >= j].description)

\* for a group that is not empty and does not raise; the summary is the
\* period followed by the conditions
_parse_forecast_group(group) ==
  LET period == GroupPeriod(group[1])
      \* for part in group[1:] if len(group) > 1 else group
      looped == IF Len(group) > 1 THEN Tail(group) ELSE group
      conditions == GroupConditions(looped)
  IN  [period |-> period,
       conditions |-> [wind |-> LastOf("wind", conditions),
                       visibility |-> LastOf("visibility", conditions),
                       weather |-> LastOf("weather", conditions),
                       clouds |-> LastOf("clouds", conditions)],
       summary |-> [period |-> period, conditions |-> conditions]]


RECURSIVE TafHeader(_, _, _)
\* the while loop of _extract_taf_components from word i on: the header
\* fields and the index of the first word after the header
TafHeader(taf_parts, i, header) ==
  IF i > Len(taf_parts) THEN [header EXCEPT !.rest = i]
  ELSE
    LET part == taf_parts[i]
    IN  IF part = <<"T","A","F">> THEN TafHeader(taf_parts, i + 1, header)
        ELSE IF part \in {<<"A","M","D">>, <<"C","O","R">>}
        THEN TafHeader(taf_parts, i + 1, [header EXCEPT !.type = part])
        ELSE IF Len(part) = 4 /\ \A k \in 1..4 : IsAlpha(part[k])
        THEN TafHeader(taf_parts, i + 1, [header EXCEPT !.station = part])
        ELSE IF DigitsAt(part, 1, 6) /\ LiteralAt(part, 7, <<"Z">>)
        THEN TafHeader(taf_parts, i + 1,
                       [header EXCEPT !.issue_time = _parse_time(part)])
        ELSE IF IsPeriod(part)
        THEN [header EXCEPT !.valid_period = _parse_valid_period(part),
                            !.raises = ValidPeriodRaises(part),
                            !.rest = i + 1]
        ELSE TafHeader(taf_parts, i + 1, header)

RECURSIVE str(_)
\* str(n) for a natural number
str(n) == IF n < 10 THEN <<Digits[n + 1]>>
          ELSE str(n \div 10) \o <<Digits[(n % 10) + 1]>>

\* the changes _identify_significant_changes finds in one forecast, each
\* kept as the period and what changed
ForecastChanges(forecast) ==
  LET weather == forecast.conditions.weather
      visibility == forecast.conditions.visibility
      wind == forecast.conditions.wind
      named(words) == \E k \in 1..Len(weather[1].words) :
                        \E w \in words : weather[1].words[k] = w
      \* the words a description can hold that contain one of the terms
      quoted(number) == number # None
                        /\ \E speed \in {<<"2","5">>, <<"3","0">>, <<"3","5">>, <<"4","0">>} :
                             In(speed, str(number[1]))
  IN  (IF weather # None
          /\ \/ named({"thunderstorm", "heavy", "freezing", "snow",
                       "snow grains"})
             \/ \E term \in {<<"t","h","u","n","d","e","r","s","t","o","r","m">>, <<"h","e","a","v","y">>, <<"f","r","e","e","z","i","n","g">>,
                             <<"s","n","o","w">>} : In(term, lower(weather[1].text))
       THEN <<[period |-> forecast.period, change |-> "weather",
               weather |-> weather[1]]>>
       ELSE <<>>)
      \o (IF visibility # None
             /\ \E term \in {<<"1","S","M">>, <<"2","S","M">>, <<"3","S","M">>} :
                  In(term, visibility[1])
          THEN <<[period |-> forecast.period, change |-> "low visibility",
                  weather |-> [words |-> <<>>, feet |-> None, text |-> <<>>]]>>
          ELSE <<>>)
      \o (IF wind # None
             /\ \/ Len(wind[1].words) = 3
                \/ quoted(wind[1].speed)
                \/ quoted(wind[1].gust)
          THEN <<[period |-> forecast.period, change |-> "strong winds",
                  weather |-> [words |-> <<>>, feet |-> None, text |-> <<>>]]>>
          ELSE <<>>)

_identify_significant_changes(forecasts) ==
  Concat([k \in 1..Len(forecasts) |-> ForecastChanges(forecasts[k])])

\* for a text whose header and groups do not raise
_extract_taf_components(taf) ==
  LET taf_parts == split(taf)
      header == TafHeader(taf_parts, 1,
                          [type |-> <<>>, station |-> <<>>,
                           issue_time |-> <<>>, valid_period |-> <<>>,
                           raises |-> FALSE, rest |-> 1])
      remaining_parts == SubSeq(taf_parts, header.rest, Len(taf_parts))
      forecast_groups == _split_forecast_groups(remaining_parts)
      forecasts == [k \in 1..Len(forecast_groups) |->
                      _parse_forecast_group(forecast_groups[k])]
  IN  [type |-> <<"T","A","F">> \o (IF header.type = <<>> THEN <<>>
                            ELSE <<" ">> \o header.type),
       station |-> header.station,
       issue_time |-> header.issue_time,
       valid_period |-> header.valid_period,
       forecasts |-> forecasts,
       significant_changes |-> _identify_significant_changes(forecasts)]

\* _extract_taf_components raises: the try of parse_taf catches it
TafRaises(taf) ==
  LET taf_parts == split(taf)
      header == TafHeader(taf_parts, 1,
                          [type |-> <<>>, station |-> <<>>,
                           issue_time |-> <<>>, valid_period |-> <<>>,
                           raises |-> FALSE, rest |-> 1])
      forecast_groups ==
        _split_forecast_groups(SubSeq(taf_parts, header.rest, Len(taf_parts)))
  IN  \/ header.raises
      \/ \E k \in 1..Len(forecast_groups) : GroupRaises(forecast_groups[k])

\* every forecast has a summary, so the branch that reads the conditions
\* and the "detailed forecast conditions available" line are never taken
_generate_taf_simplified(found) ==
  LET parts ==
        (IF found.station # <<>>
         THEN <<Clause("Terminal forecast for", found.station)>> ELSE <<>>)
        \o (IF found.issue_time # <<>>
            THEN <<Clause("issued", found.issue_time)>> ELSE <<>>)
        \o (IF found.valid_period # <<>>
            THEN <<Clause("valid", found.valid_period)>> ELSE <<>>)
        \o [k \in 1..Len(found.forecasts) |->
              Clause("forecast", found.forecasts[k].summary)]
        \o (IF found.significant_changes # <<>>
            THEN <<Clause("significant changes", found.significant_changes)>>
            ELSE <<>>)
  IN  IF parts # <<>> THEN parts
      ELSE <<Clause("No forecast information available", <<>>)>>

parse_taf(raw_taf) ==
  IF raw_taf = <<>>
  THEN [raw |-> <<>>,
        simplified |-> <<Clause("No TAF data available", <<>>)>>,
        components |-> None]
  ELSE IF TafRaises(raw_taf)
  THEN [raw |-> strip(raw_taf),
        simplified |-> <<Clause("Unable to parse TAF", raw_taf)>>,
        components |-> None]
  ELSE [raw |-> strip(raw_taf),
        simplified |-> _generate_taf_simplified(_extract_taf_components(raw_taf)),
        components |-> Some(_extract_taf_components(raw_taf))]


(***************************************************************************)
(* AviationWeatherParser.parse_pirep                                       *)
(***************************************************************************)
pirep_severity ==
  <<[severity |-> <<"N","E","G">>, level |-> 0, description |-> "negative"],
    [severity |-> <<"T","R","A","C","E">>, level |-> 1, description |-> "trace"],
    [severity |-> <<"L","G","T">>, level |-> 2, description |-> "light"],
    [severity |-> <<"M","O","D">>, level |-> 3, description |-> "moderate"],
    [severity |-> <<"S","E","V">>, level |-> 4, description |-> "severe"],
    [severity |-> <<"E","X","T","R","M">>, level |-> 5, description |-> "extreme"]>>

turbulence_types ==
  <<<<<<"C","A","T">>, "clear air turbulence">>, <<<<"C","H","O","P">>, "choppy conditions">>,
    <<<<"L","L","W","S">>, "low level wind shear">>>>

icing_types ==
  <<<<<<"R","I","M","E">>, "rime ice">>, <<<<"C","L","R">>, "clear ice">>,
    <<<<"M","X","D">>, "mixed ice">>>>

\* the character classes of the patterns: [A-Z0-9\-/], \d, [A-Z0-9], [^/]
\* and the dot
InClass(char, class) ==
  CASE class = "location" -> IsAlpha(char) \/ IsDigit(char) \/ char \in {"-", "/"}
    [] class = "digit" -> IsDigit(char)
    [] class = "alnum" -> IsAlpha(char) \/ IsDigit(char)
    [] class = "no slash" -> char # "/"
    [] class = "any" -> TRUE

\* the length of the longest run of characters of class from position from,
\* at most most
Run(text, from, class, most) ==
  LET runs == { n \in 0..most :
                  /\ from + n - 1 <= Len(text)
                  /\ \A k \in from..(from + n - 1) : InClass(text[k], class) }
  IN  CHOOSE n \in runs : \A m \in runs : n >= m

\* re.search(marker + r'\s+(class{least,most})', text).group(1): the first
\* place where the marker is followed by one or more blanks and at least
\* least characters of the class; the blanks are as many as leave that
\* possible, the group as long as it can be.  None without a match.
SearchGroup(marker, text, class, least, most) ==
  LET n == Len(marker)
      blanks(i) == { k \in 1..Len(text) :
                       /\ i + n + k - 1 <= Len(text)
                       /\ \A j \in (i + n)..(i + n + k - 1) : text[j] = " "
                       /\ Run(text, i + n + k, class, most) >= least }
      starts == { i \in 1..Len(text) :
                    LiteralAt(text, i, marker) /\ blanks(i) # {} }
      start == CHOOSE i \in starts : \A j \in starts : i <= j
      blank == CHOOSE k \in blanks(start) : \A j \in blanks(start) : k >= j
      from == start + n + blank
  IN  IF starts = {} THEN None
      ELSE Some(SubSeq(text, from,
                       from + Run(text, from, class, most) - 1))

\* re.search(r'/FL(\d{3})|/(\d{3,5})', text): group(1) or group(2)
SearchAltitude(text) ==
  LET level(i) == LiteralAt(text, i, <<"/","F","L">>) /\ DigitsAt(text, i + 3, 3)
      bare(i) == LiteralAt(text, i, <<"/">>) /\ DigitsAt(text, i + 1, 3)
      starts == { i \in 1..Len(text) : level(i) \/ bare(i) }
      start == CHOOSE i \in starts : \A j \in starts : i <= j
  IN  IF starts = {} THEN None
      ELSE IF level(start) THEN Some(SubSeq(text, start + 3, start + 5))
      ELSE Some(SubSeq(text, start + 1,
                       start + Run(text, start + 1, "digit", 5)))

\* _parse_pirep_turbulence and _parse_pirep_icing: the severities found in
\* the order of the table, then the types; an entry without a level has
\* level None
ReportedHazard(text, types, noun) ==
  LET severities ==
        SelectSeq(pirep_severity, LAMBDA s : In(s.severity, text))
      found_types ==
        SelectSeq(types, LAMBDA t : In(t[1], text))
      entries ==
        [k \in 1..Len(severities) |->
           [level |-> Some(severities[k].level),
            description |-> [words |-> <<severities[k].description, noun>>,
                             feet |-> None, text |-> <<>>]]]
        \o [k \in 1..Len(found_types) |->
              [level |-> None,
               description |-> [words |-> <<found_types[k][2]>>,
                                feet |-> None, text |-> <<>>]]]
  IN  IF entries # <<>> THEN entries
      ELSE <<[level |-> None,
              description |-> [words |-> <<>>, feet |-> None, text |-> text]]>>

_parse_pirep_turbulence(turb_str) ==
  ReportedHazard(turb_str, turbulence_types, "turbulence")

_parse_pirep_icing(ice_str) == ReportedHazard(ice_str, icing_types, "icing")

\* a text field is <<>> for '', a list is <<>> for []
_extract_pirep_components(pirep) ==
  LET pirep_upper == upper(pirep)
      field(found) == IF found = None THEN <<>> ELSE found[1]
      turb_match == SearchGroup(<<"/","T","B">>, pirep_upper, "no slash", 1, Len(pirep))
      ice_match == SearchGroup(<<"/","I","C">>, pirep_upper, "no slash", 1, Len(pirep))
  IN  [location |-> field(SearchGroup(<<"/","O","V">>, pirep_upper, "location", 1,
                                      Len(pirep))),
       time |-> field(SearchGroup(<<"/","T","M">>, pirep_upper, "digit", 4, 4)),
       aircraft |-> field(SearchGroup(<<"/","T","P">>, pirep_upper, "alnum", 1,
                                      Len(pirep))),
       altitude |-> field(SearchAltitude(pirep_upper)),
       turbulence |-> IF turb_match = None THEN <<>>
                      ELSE _parse_pirep_turbulence(turb_match[1]),
       icing |-> IF ice_match = None THEN <<>>
                 ELSE _parse_pirep_icing(ice_match[1]),
       remarks |-> field(SearchGroup(<<"/","R","M">>, pirep_upper, "any", 1,
                                     Len(pirep)))]

_generate_pirep_simplified(found) ==
  LET parts ==
        (IF found.location # <<>>
         THEN <<Clause("Location", found.location)>> ELSE <<>>)
        \o (IF found.time # <<>>
            THEN <<Clause("reported at", found.time)>> ELSE <<>>)
        \o (IF found.aircraft # <<>>
            THEN <<Clause("aircraft", found.aircraft)>> ELSE <<>>)
        \o (IF found.altitude # <<>>
            THEN <<Clause(IF Len(found.altitude) = 3 THEN "at FL"
                          ELSE "at feet", found.altitude)>>
            ELSE <<>>)
        \o (IF found.turbulence # <<>>
            THEN <<Clause("turbulence", Descriptions(found.turbulence))>>
            ELSE <<>>)
        \o (IF found.icing # <<>>
            THEN <<Clause("icing", Descriptions(found.icing))>> ELSE <<>>)
        \o (IF found.remarks # <<>>
            THEN <<Clause("remarks", found.remarks)>> ELSE <<>>)
  IN  IF parts # <<>> THEN parts
      ELSE <<Clause("No pilot report information available", <<>>)>>

\* the description of the first entry of the table whose level is the
\* highest level reported; with no level reported that is level 0
_calculate_pirep_severity(found) ==
  LET reported == { l \in 0..5 :
                      \E k \in 1..Len(found.turbulence) :
                        found.turbulence[k].level = Some(l) }
                  \cup { l \in 0..5 :
                           \E k \in 1..Len(found.icing) :
                             found.icing[k].level = Some(l) }
      max_level == IF reported = {} THEN 0
                   ELSE CHOOSE l \in reported : \A m \in reported : l >= m
      info == pirep_severity[CHOOSE k \in 1..Len(pirep_severity) :
                               pirep_severity[k].level = max_level]
  IN  [level |-> info.level, description |-> info.description]

\* _calculate_pirep_age reads the clock: what is kept of age_hours is
\* whether it is the constant 0 or a reading of the clock.  A time that is
\* no hour and minute of the day makes replace() raise, which gives 0.
AgeFromClock(found) ==
  /\ Len(found.time) = 4
  /\ int(SubSeq(found.time, 1, 2)) <= 23
  /\ int(SubSeq(found.time, 3, 4)) <= 59

parse_pirep(raw_pirep) ==
  IF raw_pirep = <<>>
  THEN [raw |-> <<>>,
        simplified |-> <<Clause("No PIREP data available", <<>>)>>,
        components |-> None,
        severity |-> [level |-> 0, description |-> "none"],
        age_from_clock |-> FALSE]
  ELSE LET found == _extract_pirep_components(raw_pirep)
       IN  [raw |-> strip(raw_pirep),
            simplified |-> _generate_pirep_simplified(found),
            components |-> Some(found),
            severity |-> _calculate_pirep_severity(found),
            age_from_clock |-> AgeFromClock(found)]


(***************************************************************************)
(* app.parse_raw and app.make_summary: the pilot report of the PIREP       *)
(* service, decoded from its raw text and put into words                   *)
(***************************************************************************)
\* PIREP(raw=raw): every other field has its default, None
PIREP(raw) ==
  [raw |-> raw, obs_time |-> None, receipt_time |-> None, station |-> None,
   altitude_ft_msl |-> None, turbulence |-> None, icing |-> None,
   sky |-> None, temp_c |-> None, aircraft |-> None, remarks |-> None]

\* FL_RE.search(raw).group(1): the digits after the first "/FL" that has one
SearchFlightLevel(raw) ==
  LET starts == { i \in 1..Len(raw) :
                    LiteralAt(raw, i, <<"/","F","L">>) /\ DigitsAt(raw, i + 3, 1) }
      start == CHOOSE i \in starts : \A j \in starts : i <= j
  IN  IF starts = {} THEN None
      ELSE Some(SubSeq(raw, start + 3,
                       start + 2 + Run(raw, start + 3, "digit", Len(raw))))

\* the number of blanks from position from on
Blanks(raw, from) ==
  LET runs == { n \in 0..Len(raw) :
                  /\ from + n - 1 <= Len(raw)
                  /\ \A k \in from..(from + n - 1) : raw[k] = " " }
  IN  CHOOSE n \in runs : \A m \in runs : n >= m

\* TA_RE.search(raw): r"/TA\s*([-+]?\d+)" as the sign and the number
SearchTemperature(raw) ==
  LET signed(i) == IF i <= Len(raw) /\ raw[i] \in {"-", "+"} THEN 1 ELSE 0
      value(i) == i + 3 + Blanks(raw, i + 3)
      digits(i) == value(i) + signed(value(i))
      starts == { i \in 1..Len(raw) :
                    LiteralAt(raw, i, <<"/","T","A">>) /\ DigitsAt(raw, digits(i), 1) }
      start == CHOOSE i \in starts : \A j \in starts : i <= j
  IN  IF starts = {} THEN None
      ELSE Some([negative |-> LiteralAt(raw, value(start), <<"-">>),
                 magnitude |->
                   int(SubSeq(raw, digits(start),
                              digits(start) - 1
                                + Run(raw, digits(start), "digit", Len(raw))))])

\* TP_RE.search(raw).group(1): r"/TP\s*([A-Z0-9]+)"
SearchAircraft(raw) ==
  LET value(i) == i + 3 + Blanks(raw, i + 3)
      starts == { i \in 1..Len(raw) :
                    LiteralAt(raw, i, <<"/","T","P">>)
                    /\ Run(raw, value(i), "alnum", 1) = 1 }
      start == CHOOSE i \in starts : \A j \in starts : i <= j
  IN  IF starts = {} THEN None
      ELSE Some(SubSeq(raw, value(start),
                       value(start) - 1
                         + Run(raw, value(start), "alnum", Len(raw))))

\* parse_raw(raw, base): the fields of base with a match are set, the
\* others keep the value they have
parse_raw_onto(raw, base) ==
  LET fl == SearchFlightLevel(raw)
      tb == Search(<<"/","T","B">>, raw)
      ic == Search(<<"/","I","C">>, raw)
      sk == Search(<<"/","S","K">>, raw)
      ta == SearchTemperature(raw)
      tp == SearchAircraft(raw)
      rm == Search(<<"/","R","M">>, raw)
  IN  [base EXCEPT
         !.altitude_ft_msl = IF fl = None THEN @ ELSE Some(int(fl[1]) * 100),
         !.turbulence = IF tb = None THEN @ ELSE Some(INTENSITY_MAP(tb[1])),
         !.icing = IF ic = None THEN @ ELSE Some(INTENSITY_MAP(ic[1])),
         !.sky = IF sk = None THEN @ ELSE sk,
         !.temp_c = IF ta = None THEN @ ELSE ta,
         !.aircraft = IF tp = None THEN @ ELSE tp,
         !.remarks = IF rm = None THEN @ ELSE rm]

\* parse_raw(raw): base is PIREP(raw=raw)
parse_raw(raw) == parse_raw_onto(raw, PIREP(raw))

severity_icon(level) ==
  IF level = <<>> THEN ""
  ELSE IF In(<<"L","i","g","h","t">>, level) THEN "light"
  ELSE IF In(<<"M","o","d","e","r","a","t","e">>, level) THEN "moderate"
  ELSE IF In(<<"S","e","v","e","r","e">>, level) \/ In(<<"E","x","t","r","e","m","e">>, level) THEN "severe"
  ELSE ""

CLOUD_WORD ==
  <<<<<<"F","E","W">>, "few">>, <<<<"S","C","T">>, "scattered">>, <<<<"B","K","N">>, "broken">>,
    <<<<"O","V","C">>, "overcast">>>>

RECURSIVE CloudPhrases(_, _)
\* for m in CLOUD_RE.finditer(up): the phrases from position i on
CloudPhrases(up, i) ==
  IF i > Len(up) THEN <<>>
  ELSE
    LET layers == { k \in 1..4 : LiteralAt(up, i, CLOUD_WORD[k][1]) }
        layer == CHOOSE k \in layers : TRUE
        hgt == IF DigitsAt(up, i + 3, 3) THEN 3
               ELSE IF DigitsAt(up, i + 3, 2) THEN 2 ELSE 0
        conv == IF LiteralAt(up, i + 3 + hgt, <<"C","B">>) THEN "cumulonimbus"
                ELSE IF LiteralAt(up, i + 3 + hgt, <<"T","C","U">>)
                THEN "towering cumulus"
                ELSE ""
        length == 3 + hgt + (IF conv = "cumulonimbus" THEN 2
                             ELSE IF conv = "" THEN 0 ELSE 3)
    IN  IF layers = {} THEN CloudPhrases(up, i + 1)
        ELSE <<[words |-> <<CLOUD_WORD[layer][2]>>
                          \o (IF conv = "" THEN <<>> ELSE <<conv>>),
                feet |-> IF hgt = 0 THEN None
                         ELSE Some(int(SubSeq(up, i + 3, i + 2 + hgt)) * 100),
                text |-> <<>>]>>
             \o CloudPhrases(up, i + length)

\* None for no sky text; the phrases of the layers, "clear skies", or the
\* text in lower case
_format_clouds(sky) ==
  IF sky = <<>> THEN None
  ELSE IF In(<<"C","L","R">>, upper(sky)) \/ In(<<"S","K","C">>, upper(sky))
  THEN Some(<<[words |-> <<"clear skies">>, feet |-> None, text |-> <<>>]>>)
  ELSE IF CloudPhrases(upper(sky), 1) # <<>>
  THEN Some(CloudPhrases(upper(sky), 1))
  ELSE Some(<<[words |-> <<>>, feet |-> None, text |-> lower(sky)]>>)

\* relative_time reads the clock for a time it can parse and quotes a time
\* it cannot: what is kept is "time unknown" for no time, and otherwise the
\* time the phrase is made from
relative_time(timestr) ==
  IF timestr = None \/ timestr = Some(<<>>) THEN Clause("time unknown", <<>>)
  ELSE Clause("observed", timestr[1])

\* the parts that " | ".join puts together; the location is kept as the
\* station, whether AIRPORT_LOOKUP names it or not
make_summary(p) ==
  LET clouds == _format_clouds(IF p.sky = None THEN <<>> ELSE p.sky[1])
      filled(field) == field # None /\ field # Some(<<>>)
      parts ==
        (IF filled(p.turbulence)
         THEN <<Clause("turbulence reported",
                       [icon |-> severity_icon(p.turbulence[1]),
                        level |-> p.turbulence[1]])>>
         ELSE <<>>)
        \o (IF filled(p.icing)
            THEN <<Clause("icing observed",
                          [icon |-> severity_icon(p.icing[1]),
                           level |-> p.icing[1]])>>
            ELSE <<>>)
        \o (IF clouds # None THEN <<Clause("clouds", clouds[1])>> ELSE <<>>)
        \o (IF p.temp_c # None
            THEN <<Clause("temperature", p.temp_c[1])>> ELSE <<>>)
        \o (IF filled(p.aircraft)
            THEN <<Clause("aircraft type", p.aircraft[1])>> ELSE <<>>)
        \o (IF filled(p.remarks)
            THEN <<Clause("remarks", p.remarks[1])>> ELSE <<>>)
      alt == IF p.altitude_ft_msl # None /\ p.altitude_ft_msl # Some(0)
             THEN Clause("ft", p.altitude_ft_msl[1])
             ELSE Clause("altitude not given", <<>>)
      loc == IF filled(p.station) THEN Clause("near", p.station[1])
             ELSE Clause("location unknown", <<>>)
      time_info == relative_time(IF filled(p.obs_time) THEN p.obs_time
                                 ELSE p.receipt_time)
  IN  parts \o <<alt, loc, time_info>>

WindTokens ==
  { <<"0","0","0","0","0","K","T">>,
    <<"0","0","0","0","5","K","T">>,
    <<"3","6","0","1","0","K","T">>,
    <<"1","8","0","1","2","G","2","0","K","T">>,
    <<"V","R","B","0","5","K","T">> }

VisibilityTokens ==
  { <<"1","0","S","M">>,
    <<"1","0","+","S","M">>,
    <<"3","S","M">>,
    <<"1","/","2","S","M">>,
    <<"P","6","S","M">> }

\* KXXX 010000Z <wind> [180V240] <visibility> CLR 15/10 A3000
RawMetars ==
  { <<"K","X","X","X"," ","0","1","0","0","0","0","Z"," ">> \o wind \o variation \o <<" ">> \o visibility
      \o <<" ","C","L","R"," ","1","5","/","1","0"," ","A","3","0","0","0">> :
      wind \in WindTokens,
      variation \in {<<>>, <<" ","1","8","0","V","2","4","0">>},
      visibility \in VisibilityTokens }


\* the words that come after the header of a forecast
TafTokens ==
  { <<"F","M","1","2","0","0">>, <<"B","E","C","M","G">>, <<"T","E","M","P","O">>, <<"1","2","1","2","/","1","2","1","4">>, <<"T","E","M","P","O","1","2","1","2">>,
    <<"1","8","0","1","2","G","2","5","K","T">>, <<"3","S","M">>, <<"-","R","A">>, <<"B","K","N","0","0","8">> }

MaxTafTokens == 3

TafHeaders == { <<"T","A","F"," ","K","J","F","K"," ","1","2","1","7","2","0","Z"," ","1","2","1","8","/","1","3","2","4">>, <<"T","A","F"," ","A","M","D"," ","K","J","F","K"," ","1","2","1","8","/","1","3","2","4">> }

\* the raw texts of forecasts: a header and up to MaxTafTokens words
RawTafs ==
  { header \o Concat([k \in 1..Len(words) |-> <<" ">> \o words[k]]) :
      header \in TafHeaders, words \in Lists(TafTokens, MaxTafTokens) }

\* the raw texts of pilot reports
RawPireps ==
  PirepTexts
  \cup { <<"U","A"," ","/","O","V"," ","K","J","F","K"," ","/","T","M"," ","1","8","5","1"," ","/","F","L","0","8","0"," ","/","T","P"," ","B","7","3","8"," ","/","T","B"," ","M","O","D"," ","C","H","O","P"," ","/","I","C"," ","L","G","T"," ","R","I","M","E"," ","/","R","M"," ","S","M","O","O","T","H"," ","A","B","O","V","E">>,
         <<"U","A"," ","/","O","V"," ","K","J","F","K"," ","/","T","M"," ","2","5","7","5"," ","/","T","B"," ","N","E","G">>,
         <<"u","a"," ","/","o","v"," ","k","b","o","s","/","t","m"," ","0","9","3","0","/","7","5","0","0"," ","/","T","A"," ","-","0","5"," ","/","S","K"," ","B","K","N","0","4","0","C","B">> }

\* observations whose words come in every order
ShuffledMetars ==
  { Join(words) :
      words \in Shuffles(<<<<"K","J","F","K">>, <<"1","8","0","1","2","G","2","0","K","T">>, <<"1","8","0","V","2","4","0">>, <<"3","S","M">>>>)
                 \cup Shuffles(<<<<"1","2","1","8","5","1","Z">>, <<"-","R","A">>, <<"2","2","/","1","9">>, <<"A","2","9","9","2">>>>) }

\* the raw texts of observations, with the scenario of the KJFK report
ReportMetars ==
  RawMetars
  \cup ShuffledMetars
  \cup { <<"K","J","F","K"," ","1","2","1","8","5","1","Z"," ","1","8","0","1","2","G","2","0","K","T"," ","3","S","M"," ","-","R","A"," ","B","K","N","0","0","8"," ","O","V","C","0","1","5"," ","2","2","/","1","9"," ","A","2","9","9","2">>,
         <<"K","J","F","K"," ","1","2","1","8","5","1","Z"," ","1","8","0","1","2","G","2","0","K","T"," ","3","S","M"," ","R","M","K"," ","-","R","A"," ","B","K","N","0","0","8"," ","A","2","9","9","2">>,
         <<"M","0","5","/","M","1","0"," ","+","T","S","R","A"," ","V","V","0","0","2"," ","K","J","F","K">> }

\* a report of each kind: a raw text, the empty text, or blanks only
RawReports ==
  { [kind |-> "METAR", raw |-> raw] : raw \in ReportMetars \cup {<<>>, <<" "," ">>} }
  \cup { [kind |-> "TAF", raw |-> raw] : raw \in RawTafs \cup {<<>>, <<" "," ">>} }
  \cup { [kind |-> "PIREP", raw |-> raw] : raw \in RawPireps \cup {<<>>, <<" "," ">>} }


(***************************************************************************)
(* PIREPService.fetch_and_sort.  A time of an upstream item is kept as its *)
(* form (seconds since the epoch, an ISO text with or without an offset,   *)
(* or a text that is no time) and the instant it names.                    *)
(***************************************************************************)
Instants == {1, 2}

UpstreamTimes ==
  { [form |-> form, at |-> at] :
      form \in {"epoch", "iso utc", "iso local"}, at \in Instants }
  \cup { [form |-> "text", at |-> 0] }

\* the items fetch() returns: raw text, and the times the upstream gave
UpstreamItems ==
  { [rawOb |-> raw, obsTime |-> obs, receiptTime |-> receipt] :
      raw \in { <<"U","A"," ","/","O","V"," ","K","J","F","K"," ","/","T","B"," ","M","O","D">>, <<"U","A"," ","/","O","V"," ","K","B","O","S"," ","/","I","C"," ","L","G","T">> },
      obs \in {None} \cup { Some(time) : time \in UpstreamTimes },
      receipt \in {None, Some([form |-> "epoch", at |-> 1]),
                   Some([form |-> "iso utc", at |-> 2])} }

MaxItems == 2

\* parse_api_json: a PIREP per item, with the fields of the raw text
parse_api_json(items) ==
  [k \in 1..Len(items) |->
     parse_raw_onto(items[k].rawOb,
                    [PIREP(items[k].rawOb) EXCEPT
                       !.obs_time = items[k].obsTime,
                       !.receipt_time = items[k].receiptTime])]

\* datetime.min, which has no time zone
datetime_min == [aware |-> FALSE, at |-> -1]

\* sort_key(p): a datetime with a time zone for seconds since the epoch and
\* for an ISO text with an offset, one without for an ISO text without,
\* datetime.min when fromisoformat raises
sort_key(p) ==
  LET time_str == IF p.obs_time # None THEN p.obs_time ELSE p.receipt_time
  IN  IF time_str = None THEN datetime_min
      ELSE IF time_str[1].form \in {"epoch", "iso utc"}
      THEN [aware |-> TRUE, at |-> time_str[1].at]
      ELSE IF time_str[1].form = "iso local"
      THEN [aware |-> FALSE, at |-> time_str[1].at]
      ELSE datetime_min

\* ordering a datetime with a time zone against one without raises
\* TypeError; a sort of two or more keys compares every key with another
CompareRaises(pireps) ==
  \E i, j \in 1..Len(pireps) : sort_key(pireps[i]).aware # sort_key(pireps[j]).aware

RECURSIVE Insert(_, _)
\* p put behind every entry whose key is not smaller
Insert(ordered, p) ==
  IF ordered = <<>> THEN <<p>>
  ELSE IF sort_key(Head(ordered)).at >= sort_key(p).at
  THEN <<Head(ordered)>> \o Insert(Tail(ordered), p)
  ELSE <<p>> \o ordered

RECURSIVE sorted(_)
\* sorted(pireps, key=sort_key, reverse=True), which is stable
sorted(pireps) ==
  IF pireps = <<>> THEN <<>>
  ELSE Insert(sorted(SubSeq(pireps, 1, Len(pireps) - 1)), pireps[Len(pireps)])

\* what fetch_and_sort returns for the items fetch() returned, or that it
\* raised
fetch_and_sort(items) ==
  IF items = <<>> THEN [raised |-> FALSE, pireps |-> <<>>]
  ELSE IF CompareRaises(parse_api_json(items))
  THEN [raised |-> TRUE, pireps |-> <<>>]
  ELSE [raised |-> FALSE, pireps |-> sorted(parse_api_json(items))]

DecoderIdle ==
  /\ metar_json = None
  /\ parsed = None
  /\ raw_metar = None
  /\ components = None
  /\ raw_report = None
  /\ decoded = None
  /\ pirep_summary = None
  /\ pirep_items = None
  /\ sorted_pireps = None

(***************************************************************************)
(* app.analyze_flight_plan                                                 *)
(***************************************************************************)
MaxRoute == 2

AirportCodes == <<"KAAA", "KBBB", "KCCC", "KDDD">>

\* routes of at least a departure and an arrival; an airport may recur
Routes ==
  { route \in UNION { [1..n -> { AirportCodes[k] : k \in 1..n }] : n \in 2..MaxRoute } :
      \A i \in 1..Len(route) :
        \E k \in 1..i :
          /\ route[i] = AirportCodes[k]
          /\ \A j \in 1..(k - 1) : \E h \in 1..(i - 1) : route[h] = AirportCodes[j] }

RouteMetars ==
  { \* VFR, 10 SM, 14 kt
    _parse_metar("VFR", Some(10), None,
                 [wind_speed |-> Some(14), wind_gust |-> None], <<>>),
    \* MVFR, 3 SM, 14 kt
    _parse_metar("MVFR", Some(3), None,
                 [wind_speed |-> Some(14), wind_gust |-> None], <<>>),
    \* IFR, ceiling 800 ft, 14 kt
    _parse_metar("IFR", None, Some(800),
                 [wind_speed |-> Some(14), wind_gust |-> None], <<>>),
    \* IFR, below 1 SM, 14 kt
    _parse_metar("IFR", Some(0), None,
                 [wind_speed |-> Some(14), wind_gust |-> None], <<>>),
    \* VFR, 25 kt gusting 34 kt
    _parse_metar("VFR", Some(10), None,
                 [wind_speed |-> Some(25), wind_gust |-> Some(34)], <<>>),
    \* no tag, below 1 SM, 14 kt, TSRA
    _parse_metar("UNKNOWN", Some(0), None,
                 [wind_speed |-> Some(14), wind_gust |-> None],
                 << WxGroup(<<>>, <<"T","S">>, <<"R","A">>) >>),
    \* MVFR, wind not reported
    _parse_metar("MVFR", Some(3), None,
                 [wind_speed |-> None, wind_gust |-> None], <<>>) }

RouteTafs ==
  { None,
    \* a forecast whose rawTAF is missing
    Some([raw_text |-> None]),
    \* TAF KJFK TEMPO TSRA
    Some([raw_text |-> Some(<<"T","A","F"," ","K","J","F","K"," ","T","E","M","P","O"," ","T","S","R","A">>)]) }

RoutePireps ==
  { <<>>,
    \* UA /RM MOD TURB
    << Some([raw_text |-> Some(<<"U","A"," ","/","R","M"," ","M","O","D"," ","T","U","R","B">>)]) >> }

PlanIdle ==
  /\ airports = <<>>
  /\ departure_in_future = FALSE
  /\ next_airport = 1
  /\ weather_data = <<>>
  /\ invalid_airports = <<>>
  /\ briefing = None
  /\ nlp_analysis = None
  /\ plan_status = 0

Init ==
  /\ airports \in Routes
  /\ departure_in_future \in BOOLEAN
  /\ next_airport = 1
  /\ weather_data = <<>>
  /\ invalid_airports = <<>>
  /\ briefing = None
  /\ nlp_analysis = None
  /\ plan_status = 0
  /\ metar_data = None
  /\ wx_groups = <<>>
  /\ metar_analysis = None
  /\ results = None
  /\ http_status = 0
  /\ DecoderIdle

\* One pass of the fetch loop: get_time_appropriate_weather(airport), then
\* either the airport is noted as invalid or its reports are combined and
\* stored.  An exception ends the request with status 500.
FetchWeather ==
  /\ plan_status = 0
  /\ next_airport <= Len(airports)
  /\ \E metar \in {None} \cup { Some(m) : m \in RouteMetars },
        taf \in RouteTafs, pirep \in RoutePireps :
       LET airport == airports[next_airport]
           primary_source == IF departure_in_future /\ taf # None
                             THEN "TAF" ELSE "METAR"
           airport_weather ==
             [metar |-> metar, taf |-> taf, pirep |-> pirep,
              time_appropriate_conditions |->
                 (primary_source = "TAF" \/ metar # None),
              primary_source |-> primary_source]
           combined == analyze_combined_weather_data(airport_weather)
       IN  IF metar = None /\ taf = None
           THEN /\ invalid_airports' = Append(invalid_airports, airport)
                /\ next_airport' = next_airport + 1
                /\ UNCHANGED <<weather_data, plan_status>>
           ELSE IF combined.raised
           THEN /\ plan_status' = 500
                /\ UNCHANGED <<weather_data, invalid_airports, next_airport>>
           ELSE /\ weather_data' =
                     (airport :> (airport_weather @@ [analysis |-> combined.value]))
                     @@ weather_data
                /\ next_airport' = next_airport + 1
                /\ UNCHANGED <<invalid_airports, plan_status>>
  /\ UNCHANGED <<airports, departure_in_future, briefing, nlp_analysis>>
  /\ UNCHANGED <<classifier_vars, weather_vars, decoder_vars, pirep_vars>>

\* some airport had neither a METAR nor a TAF: the request is refused
RejectInvalidAirports ==
  /\ plan_status = 0
  /\ next_airport > Len(airports)
  /\ invalid_airports # <<>>
  /\ plan_status' = 400
  /\ UNCHANGED <<airports, departure_in_future, next_airport, weather_data,
                 invalid_airports, briefing, nlp_analysis>>
  /\ UNCHANGED <<classifier_vars, weather_vars, decoder_vars, pirep_vars>>

\* briefing = generate_flight_briefing(weather_data, airports), then
\* nlp_analysis = generate_comprehensive_summary(weather_data, airports,
\* briefing).  The charts, the NOTAM lookup, parse_weather_data and the
\* route distance fill other fields of the response and are left out.
GenerateBriefing ==
  /\ plan_status = 0
  /\ next_airport > Len(airports)
  /\ invalid_airports = <<>>
  /\ \E hazard_order \in SetOrders(all_hazards(weather_data, airports)) :
       LET made == generate_flight_briefing(weather_data, airports,
                                            hazard_order)
       IN  /\ briefing' = Some(made)
           /\ nlp_analysis' = Some(generate_comprehensive_summary(
                                     weather_data, airports, made))
  /\ plan_status' = 200
  /\ UNCHANGED <<airports, departure_in_future, next_airport, weather_data,
                 invalid_airports>>
  /\ UNCHANGED <<classifier_vars, weather_vars, decoder_vars, pirep_vars>>

Next == FetchWeather \/ RejectInvalidAirports \/ GenerateBriefing

Spec == Init /\ [][Next]_vars

(***************************************************************************)
(* The classifier applied to one station's observation                     *)
(***************************************************************************)
InitMetar ==
  /\ \/ \E fltCat \in FlightCategories, visib \in Visibilities,
           ceiling \in Ceilings, wind \in Winds, groups \in WxReports :
          /\ metar_data = Some(_parse_metar(fltCat, visib, ceiling, wind, groups))
          /\ wx_groups = groups
     \/ \E m \in MistypedMetars :
          /\ metar_data = Some(m)
          /\ wx_groups = <<>>
     \/ \E m \in ScenarioMetars :
          /\ metar_data = Some(m)
          /\ wx_groups = IF m = LightRainLowCeiling
                         THEN << WxGroup(<<"-">>, <<>>, <<"R","A">>) >>
                         ELSE <<>>
  /\ metar_analysis = None
  /\ results = None
  /\ http_status = 0
  /\ PlanIdle
  /\ DecoderIdle

\* analyze_metar(metar_data)
AnalyzeMetar ==
  /\ metar_data # None
  /\ metar_analysis = None
  /\ metar_analysis' = Some(analyze_metar(metar_data[1]))
  /\ UNCHANGED <<metar_data, wx_groups, weather_vars, plan_vars, decoder_vars, pirep_vars>>

NextMetar == AnalyzeMetar

SpecMetar == InitMetar /\ [][NextMetar]_vars

(***************************************************************************)
(* app.get_weather: the reports of one airport are fetched and combined    *)
(***************************************************************************)
InitWeather ==
  /\ \E metar \in {None} \cup { Some(m) : m \in Metars },
        taf \in Tafs, pirep \in PirepLists :
       results = [metar |-> metar, taf |-> taf, pirep |-> pirep,
                  analysis |-> None]
  /\ http_status = 0
  /\ metar_data = None
  /\ wx_groups = <<>>
  /\ metar_analysis = None
  /\ PlanIdle
  /\ DecoderIdle

\* results['analysis'] = analyze_combined_weather_data(results); the
\* handler has no time_appropriate_conditions.  Any exception is answered
\* with status 500.
GetWeather ==
  /\ results # None
  /\ http_status = 0
  /\ LET combined == analyze_combined_weather_data(
                       [metar |-> results.metar, taf |-> results.taf,
                        pirep |-> results.pirep,
                        time_appropriate_conditions |-> FALSE,
                        primary_source |-> "METAR"])
     IN  IF combined.raised
         THEN /\ http_status' = 500
              /\ UNCHANGED results
         ELSE /\ http_status' = 200
              /\ results' = [results EXCEPT !.analysis = Some(combined.value)]
  /\ UNCHANGED <<classifier_vars, plan_vars, decoder_vars, pirep_vars>>

NextWeather == GetWeather

SpecWeather == InitWeather /\ [][NextWeather]_vars

(***************************************************************************)
(* The decoders applied to one observation: the upstream record goes       *)
(* through WeatherService._parse_metar, the raw text through               *)
(* AviationWeatherParser.parse_metar.                                      *)
(***************************************************************************)
InitDecode ==
  /\ \/ /\ metar_json \in { Some(record) : record \in UpstreamMetars }
        /\ raw_metar = None
        /\ raw_report = None
     \/ /\ metar_json = None
        /\ raw_metar \in { Some(text) : text \in RawMetars }
        /\ raw_report = None
     \/ /\ metar_json = None
        /\ raw_metar = None
        /\ raw_report \in { Some(report) : report \in RawReports }
  /\ parsed = None
  /\ components = None
  /\ decoded = None
  /\ pirep_summary = None
  /\ pirep_items = None
  /\ sorted_pireps = None
  /\ metar_data = None
  /\ wx_groups = <<>>
  /\ metar_analysis = None
  /\ results = None
  /\ http_status = 0
  /\ PlanIdle

\* parsed = _parse_metar(metar_data)
ParseMetarJson ==
  /\ metar_json # None
  /\ parsed = None
  /\ parsed' = Some(parse_metar_json(metar_json[1]))
  /\ UNCHANGED <<metar_json, raw_metar, components, raw_report, decoded,
                 pirep_summary>>
  /\ UNCHANGED <<classifier_vars, weather_vars, plan_vars, pirep_vars>>

\* components = parse_metar(raw_metar)['components']
ParseMetarText ==
  /\ raw_metar # None
  /\ components = None
  /\ components' = Some(_extract_metar_components(raw_metar[1]))
  /\ UNCHANGED <<metar_json, parsed, raw_metar, raw_report, decoded,
                 pirep_summary>>
  /\ UNCHANGED <<classifier_vars, weather_vars, plan_vars, pirep_vars>>

\* decoded = weather_parser.parse_metar(raw), parse_taf(raw) or
\* parse_pirep(raw), by the kind of the report
ParseReport ==
  /\ raw_report # None
  /\ decoded = None
  /\ decoded' = Some(CASE raw_report[1].kind = "METAR" ->
                            parse_metar(raw_report[1].raw)
                        [] raw_report[1].kind = "TAF" ->
                            parse_taf(raw_report[1].raw)
                        [] raw_report[1].kind = "PIREP" ->
                            parse_pirep(raw_report[1].raw))
  /\ UNCHANGED <<metar_json, parsed, raw_metar, components, raw_report,
                 pirep_summary>>
  /\ UNCHANGED <<classifier_vars, weather_vars, plan_vars, pirep_vars>>

\* pirep = parse_raw(raw); 'simplified': make_summary(pirep)
SummarizePirep ==
  /\ raw_report # None
  /\ raw_report[1].kind = "PIREP"
  /\ pirep_summary = None
  /\ LET pirep == parse_raw(raw_report[1].raw)
     IN  pirep_summary' = Some([pirep |-> pirep,
                                simplified |-> make_summary(pirep)])
  /\ UNCHANGED <<metar_json, parsed, raw_metar, components, raw_report,
                 decoded>>
  /\ UNCHANGED <<classifier_vars, weather_vars, plan_vars, pirep_vars>>

NextDecode ==
  ParseMetarJson \/ ParseMetarText \/ ParseReport \/ SummarizePirep

SpecDecode == InitDecode /\ [][NextDecode]_vars

(***************************************************************************)
(* The pilot reports of a station: fetch_and_sort fetches the items,       *)
(* decodes them and orders them.                                           *)
(***************************************************************************)
InitPireps ==
  /\ pirep_items = None
  /\ sorted_pireps = None
  /\ metar_data = None
  /\ wx_groups = <<>>
  /\ metar_analysis = None
  /\ results = None
  /\ http_status = 0
  /\ PlanIdle
  /\ metar_json = None
  /\ parsed = None
  /\ raw_metar = None
  /\ components = None
  /\ raw_report = None
  /\ decoded = None
  /\ pirep_summary = None

\* pireps = pirep_service.fetch_and_sort(...): fetch() returns no item (no
\* content, or a failed request) or a list of items
FetchAndSort ==
  /\ sorted_pireps = None
  /\ \E items \in Lists(UpstreamItems, MaxItems) :
       /\ pirep_items' = Some(items)
       /\ sorted_pireps' = Some(fetch_and_sort(items))
  /\ UNCHANGED <<classifier_vars, weather_vars, plan_vars, decoder_vars>>

NextPireps == FetchAndSort

SpecPireps == InitPireps /\ [][NextPireps]_vars

(***************************************************************************)
(* Properties.  Categories are ranked CLEAR < SIGNIFICANT < SEVERE, the    *)
(* code's names for favorable, marginal and adverse.                       *)
(***************************************************************************)
Tiers == {"CLEAR", "SIGNIFICANT", "SEVERE"}

Rank(category) == IF category = "SEVERE" THEN 2
                  ELSE IF category = "SIGNIFICANT" THEN 1 ELSE 0

HasScore(result) == "severity_score" \in DOMAIN result

Classified == metar_analysis # None

Combined == http_status = 200 /\ results.metar # None

Briefed == plan_status = 200

\* the route threshold check applied to one score
ThresholdCheck(score) == IF score >= 6 THEN "SEVERE"
                         ELSE IF score >= 3 THEN "SIGNIFICANT" ELSE "CLEAR"

(***************************************************************************)
(* Combiner (SpecWeather)                                                  *)
(***************************************************************************)
\* C1: the category returned by the combiner is never of lower rank than
\* the category the classifier gave the surface observation alone, whatever
\* forecast and pilot reports are combined with it.
C1_NeverDowngraded ==
  Combined =>
    LET own == analyze_metar(results.metar[1]).category
        combined == results.analysis[1].category
    IN  own \in Tiers => (combined \in Tiers /\ Rank(combined) >= Rank(own))

\* C1 failing case: an IFR observation with visibility below 1 SM, alone:
\* the classifier says SEVERE (score 4), the combiner returns SIGNIFICANT.
C1_Downgraded ==
  /\ Combined
  /\ results.taf = None /\ results.pirep = <<>>
  /\ results.metar[1].flight_category = "IFR"
  /\ results.metar[1].visibility = Some(0)
  /\ analyze_metar(results.metar[1]).category = "SEVERE"
  /\ results.analysis[1].category = "SIGNIFICANT"

\* C2: for a location with a surface observation the combined severity
\* score is never lower than the score the classifier computed for that
\* observation, whatever the pilot reports say.
C2_ScoreFloored ==
  Combined =>
    LET own == analyze_metar(results.metar[1])
    IN  HasScore(own) =>
          results.analysis[1].severity_score >= own.severity_score

\* C2 failing case: a pilot report of a smooth ride takes one point off
\* the score of the observation.
C2_BelowObservation ==
  /\ Combined
  /\ results.pirep # <<>>
  /\ HasScore(analyze_metar(results.metar[1]))
  /\ results.analysis[1].severity_score
       = analyze_metar(results.metar[1]).severity_score - 1

(***************************************************************************)
(* Classifier (SpecMetar)                                                  *)
(***************************************************************************)
\* C3: for every flight-category tag and total score the classifier's
\* category follows the stated clauses, read in the order given (the first
\* clause that applies decides): CLEAR (favorable) for a VFR tag with score
\* <= 1; SIGNIFICANT (marginal) for an MVFR tag, or a VFR tag with score > 1;
\* SEVERE (adverse) for an IFR or LIFR tag, or score >= 4; SIGNIFICANT for
\* any other combination.
C3_CategoryFromTagAndScore ==
  Classified =>
    LET tag == metar_data[1].flight_category
        result == metar_analysis[1]
        category == result.category
    IN  /\ tag = "MVFR" => category = "SIGNIFICANT"
        /\ tag \in {"IFR", "LIFR"} => category = "SEVERE"
        /\ HasScore(result)
        /\ LET score == result.severity_score
               favorable == tag = "VFR" /\ score <= 1
               marginal == tag = "MVFR" \/ (tag = "VFR" /\ score > 1)
               adverse == tag \in {"IFR", "LIFR"} \/ score >= 4
           IN  /\ favorable => category = "CLEAR"
               /\ (~favorable /\ marginal) => category = "SIGNIFICANT"
               /\ (~favorable /\ ~marginal /\ adverse) => category = "SEVERE"
               /\ (~favorable /\ ~marginal /\ ~adverse)
                    => category = "SIGNIFICANT"

\* C3 failing case: an MVFR observation that reports no wind speed is
\* classified UNKNOWN.
C3_MvfrUnknown ==
  /\ Classified
  /\ metar_data[1].flight_category = "MVFR"
  /\ metar_data[1].wind_speed = None
  /\ metar_analysis[1].category = "UNKNOWN"

\* the sum of the per-factor contributions of the classified observation
ContributionSum ==
  LET m == metar_data[1]
      visibility ==
        IF m.visibility = None THEN 0
        ELSE IF m.visibility[1] >= 3 THEN 0
        ELSE IF m.visibility[1] >= 1 THEN 2 ELSE 4
      ceiling ==
        IF m.ceiling = None THEN 0
        ELSE IF m.ceiling[1] >= 1000 THEN 0
        ELSE IF m.ceiling[1] >= 500 THEN 2 ELSE 4
      effective == IF m.wind_gust # None THEN m.wind_gust[1]
                   ELSE m.wind_speed[1]
      wind ==
        IF m.wind_speed = None THEN 0
        ELSE IF effective < 15 THEN 0
        ELSE IF effective < 25 THEN 1
        ELSE IF effective < 35 THEN 3 ELSE 5
      groups == { wx_groups[i] : i \in 1..Len(wx_groups) }
      isPrecipitation(g) ==
        g.phenomenon \in {<<"R","A">>, <<"D","Z">>, <<"S","N">>, <<"S","G">>,
                          <<"I","C">>, <<"P","L">>, <<"G","R">>, <<"G","S">>,
                          <<"U","P">>}
      heavy == \E g \in groups :
                 /\ isPrecipitation(g)
                 /\ \/ g.intensity = <<"+">>
                    \/ g.descriptor = <<"T","S">> /\ g.phenomenon = <<"R","A">>
      light == \E g \in groups : isPrecipitation(g) /\ g.intensity = <<"-">>
      precipitation ==
        IF heavy THEN 3
        ELSE IF light THEN 1
        ELSE IF \E g \in groups : isPrecipitation(g) THEN 2 ELSE 0
      thunderstorm ==
        IF \E g \in groups : g.descriptor = <<"T","S">> \/ g.phenomenon = <<"T","S">>
        THEN 4 ELSE 0
      obscuration ==
        IF \E g \in groups : g.phenomenon \in {<<"F","G">>, <<"B","R">>, <<"H","Z">>}
        THEN 2 ELSE 0
      freezing ==
        IF \E g \in groups : g.descriptor = <<"F","Z">> THEN 3 ELSE 0
  IN  visibility + ceiling + wind + precipitation + thunderstorm
      + obscuration + freezing

\* C4: the severity score is the sum of independent per-factor
\* contributions: visibility (0 / +2 / +4), ceiling (0 / +2 / +4), effective
\* wind (gust if present else speed: 0 / +1 / +3 / +5), precipitation (exactly
\* one of +3 heavy or thunderstorm-with-rain, +1 light, +2 moderate),
\* thunderstorm +4, fog/mist/haze +2, freezing +3; an absent field adds 0.
C4_ScoreIsSumOfContributions ==
  Classified =>
    /\ HasScore(metar_analysis[1])
    /\ metar_analysis[1].severity_score = ContributionSum

\* C4 failing case: heavy showers of rain (+SHRA) alone score the +2 of
\* moderate precipitation where the contributions sum to +3.
C4_HeavyShowersScoredModerate ==
  /\ Classified
  /\ wx_groups = << WxGroup(<<"+">>, <<"S","H">>, <<"R","A">>) >>
  /\ HasScore(metar_analysis[1])
  /\ ContributionSum = metar_analysis[1].severity_score + 1

\* the observations that differ from the classified one in exactly one of
\* visibility, ceiling or wind, that factor being worse
WorseObservations ==
  LET m == metar_data[1]
      worseVisibility ==
        { [m EXCEPT !.visibility = v] :
            v \in { w \in Visibilities :
                      /\ w # None /\ IsNumber(m.visibility)
                      /\ w[1] < m.visibility[1] } }
      worseCeiling ==
        { [m EXCEPT !.ceiling = c] :
            c \in { d \in Ceilings :
                      /\ d # None /\ IsNumber(m.ceiling)
                      /\ d[1] < m.ceiling[1] } }
      gustNotLower(w) ==
        \/ w.wind_gust = None /\ m.wind_gust = None
        \/ /\ w.wind_gust # None /\ IsNumber(m.wind_gust)
           /\ w.wind_gust[1] >= m.wind_gust[1]
        \/ /\ w.wind_gust # None /\ m.wind_gust = None
           /\ w.wind_gust[1] > w.wind_speed[1]
      worseWind ==
        { [m EXCEPT !.wind_speed = w.wind_speed, !.wind_gust = w.wind_gust] :
            w \in { x \in Winds :
                      /\ x.wind_speed # None /\ IsNumber(m.wind_speed)
                      /\ x.wind_speed[1] >= m.wind_speed[1]
                      /\ gustNotLower(x)
                      /\ <<x.wind_speed, x.wind_gust>>
                           # <<m.wind_speed, m.wind_gust>> } }
  IN  worseVisibility \cup worseCeiling \cup worseWind

\* C5: the classifier score is monotone: if a second observation differs
\* from the classified one in exactly one of visibility, ceiling or wind and
\* that factor is worse (lower visibility, lower ceiling, higher speed or
\* gust), all other fields equal, its score is at least the first's.
C5_ScoreMonotone ==
  (Classified /\ HasScore(metar_analysis[1])) =>
    \A second \in WorseObservations :
      /\ HasScore(analyze_metar(second))
      /\ analyze_metar(second).severity_score
           >= metar_analysis[1].severity_score

\* C5 failing case: a VFR observation with light rain and no wind speed
\* scores 1; with the visibility lowered from 3 SM to 1 SM the result is
\* the error result, which carries no score.
C5_WorseVisibilityLosesScore ==
  /\ Classified
  /\ HasScore(metar_analysis[1])
  /\ metar_analysis[1].severity_score = 1
  /\ metar_data[1].flight_category = "VFR"
  /\ metar_data[1].visibility = Some(3)
  /\ metar_data[1].wind_speed = None
  /\ [metar_data[1] EXCEPT !.visibility = Some(1)] \in WorseObservations
  /\ ~HasScore(analyze_metar([metar_data[1] EXCEPT !.visibility = Some(1)]))

(***************************************************************************)
(* Route aggregator (Spec)                                                 *)
(***************************************************************************)
\* C6: the overall category is SEVERE if the maximum per-location score is
\* >= 6 or the mean is >= 4, otherwise SIGNIFICANT if the maximum is >= 3 or
\* the mean is >= 2, otherwise CLEAR, maximum and mean being taken over the
\* combined scores of the route's locations.
C6_OverallFromRouteScores ==
  Briefed =>
    LET scores == [i \in 1..Len(airports) |->
                     weather_data[airports[i]].analysis.severity_score]
        max_severity == Max(scores)
        total == Sum(scores)
        count == Len(scores)
    IN  briefing[1].overall_category =
          IF max_severity >= 6 \/ total >= 4 * count THEN "SEVERE"
          ELSE IF max_severity >= 3 \/ total >= 2 * count THEN "SIGNIFICANT"
          ELSE "CLEAR"

\* C6 failing case: the arrival has a forecast and a pilot report but no
\* surface observation; its combined score of 4 is left out and the route
\* is reported CLEAR.
C6_ForecastOnlyScoreLeftOut ==
  /\ Briefed
  /\ Len(airports) = 2 /\ airports[1] # airports[2]
  /\ weather_data[airports[1]].analysis.severity_score = 0
  /\ weather_data[airports[2]].metar = None
  /\ weather_data[airports[2]].analysis.severity_score = 4
  /\ briefing[1].overall_category = "CLEAR"

\* C7: the rank of the overall category is never below the rank of the
\* category of any location included in the briefing.
C7_OverallCoversEveryLocation ==
  Briefed =>
    \A i \in 1..Len(airports) :
      weather_data[airports[i]].metar # None =>
        Rank(briefing[1].overall_category)
          >= Rank(weather_data[airports[i]].analysis.category)

\* C7 failing case: a location with a surface observation is SEVERE and
\* the route is reported CLEAR.
C7_SevereLocationOnClearRoute ==
  /\ Briefed
  /\ briefing[1].overall_category = "CLEAR"
  /\ \E i \in 1..Len(airports) :
       /\ weather_data[airports[i]].metar # None
       /\ weather_data[airports[i]].analysis.category = "SEVERE"
       /\ \E k \in 1..Len(briefing[1].critical_airports) :
            /\ briefing[1].critical_airports[k].airport = airports[i]
            /\ briefing[1].critical_airports[k].category = "SEVERE"

\* C8: the rank of the overall category is at least the rank the route
\* threshold check gives for the score of the maximum-severity location
\* alone.
C8_OverallCoversMaxSeverity ==
  Briefed =>
    \A i \in 1..Len(airports) :
      Rank(briefing[1].overall_category) >=
        Rank(ThresholdCheck(weather_data[airports[i]].analysis.severity_score))

\* C8 failing case: every location of the route has a score of 3 or more
\* and the route is reported CLEAR.
C8_ClearBelowMaxSeverity ==
  /\ Briefed
  /\ briefing[1].overall_category = "CLEAR"
  /\ \A i \in 1..Len(airports) :
       /\ weather_data[airports[i]].analysis.severity_score >= 3
       /\ weather_data[airports[i]].analysis.severity_score < 6

\* C9: the critical list holds exactly the route locations whose combined
\* category is SIGNIFICANT or SEVERE, in route order, each with the hazard
\* list of that location.
C9_CriticalListExact ==
  Briefed =>
    LET critical == Ascending({ i \in 1..Len(airports) :
                      weather_data[airports[i]].analysis.category
                        \in {"SIGNIFICANT", "SEVERE"} })
    IN  briefing[1].critical_airports =
          [k \in 1..Len(critical) |->
             [airport |-> airports[critical[k]],
              category |-> weather_data[airports[critical[k]]].analysis.category,
              issues |-> weather_data[airports[critical[k]]].analysis.hazards]]

\* C9 failing case: a location whose combined category is SIGNIFICANT is
\* not in the critical list.
C9_CriticalLocationMissing ==
  /\ Briefed
  /\ \E i \in 1..Len(airports) :
       /\ weather_data[airports[i]].analysis.category = "SIGNIFICANT"
       /\ \A k \in 1..Len(briefing[1].critical_airports) :
            briefing[1].critical_airports[k].airport # airports[i]

\* the locations a briefing reports on: those its category and hazards are
\* drawn from
ClassifiedInBriefing ==
  { airports[i] : i \in { j \in 1..Len(airports) :
      /\ airports[j] \in DOMAIN weather_data
      /\ weather_data[airports[j]].metar # None } }

\* C10: once the request is answered, every location of the route is either
\* classified in a briefing or marked unavailable in it; a location no
\* source had data for is marked, never silently absent.  The briefing has
\* no field for such a mark, so a location must be classified.
C10_NoLocationSilentlyAbsent ==
  plan_status # 0 =>
    /\ briefing # None
    /\ \A i \in 1..Len(airports) : airports[i] \in ClassifiedInBriefing

\* C10 failing case: a location without data from any source
\* ends the request with status 400 and no briefing.
C10_NoDataRefused ==
  /\ plan_status = 400
  /\ invalid_airports # <<>>
  /\ briefing = None
  /\ nlp_analysis = None

(***************************************************************************)
(* Totality of the classifier (SpecMetar)                                  *)
(***************************************************************************)
\* C11: the classifier is total: for every observation record, a field of
\* unexpected type included, it returns a result and never raises; after an
\* internal fault the result has category UNKNOWN and carries an error
\* note, and otherwise it is a scored result in one of the three tiers.
C11_ClassifierTotal ==
  Classified =>
    LET result == metar_analysis[1]
    IN  /\ "category" \in DOMAIN result
        /\ IF HasScore(result)
           THEN result.category \in Tiers /\ "error" \notin DOMAIN result
           ELSE result.category = "UNKNOWN" /\ "error" \in DOMAIN result
        /\ ComparisonRaises(metar_data[1]) =>
             (result.category = "UNKNOWN" /\ "error" \in DOMAIN result)

\* C11 witness: an observation whose visibility is no number has been
\* classified UNKNOWN with an error note.
C11_MistypedVisibilityUnknown ==
  /\ Classified
  /\ metar_data[1].visibility = Mistyped
  /\ metar_analysis[1].category = "UNKNOWN"
  /\ "error" \in DOMAIN metar_analysis[1]

(***************************************************************************)
(* Totality of the combiner (SpecWeather)                                  *)
(***************************************************************************)
\* C12: the combiner is total over records whose observation, forecast and
\* pilot reports may each be absent or have a null raw text: it always
\* returns a combined condition and no fault leaves it as a raised error,
\* also when the classifier returned its UNKNOWN result.
C12_CombinerTotal ==
  http_status # 0 =>
    /\ http_status = 200
    /\ results.analysis # None
    /\ results.analysis[1].category \in Tiers \cup {"UNKNOWN"}

\* C12 failing case: a forecast whose raw text is null makes the combiner
\* raise; the handler answers 500 and there is no combined condition.
C12_NullRawTextRaises ==
  /\ http_status = 500
  /\ results.metar = None
  /\ results.taf = Some([raw_text |-> None])
  /\ results.pirep = <<>>
  /\ results.analysis = None

(***************************************************************************)
(* Narrative synthesizer contract                                          *)
(***************************************************************************)
\* the positions of the route with a surface observation
Observed ==
  Ascending({ i \in 1..Len(airports) :
                /\ airports[i] \in DOMAIN weather_data
                /\ weather_data[airports[i]].metar # None })

\* the number of critical conditions the observed positions report
CriticalCount ==
  LET critical(hazard) == hazard.severity = "critical"
      at(k) == Len(SelectSeq(_extract_weather_conditions(
                     weather_data[airports[Observed[k]]].metar[1]), critical))
  IN  Sum([k \in 1..Len(Observed) |-> at(k)])

\* the sum of the severity scores of the observed positions
ScoreSum ==
  Sum([k \in 1..Len(Observed) |->
         weather_data[airports[Observed[k]]].analysis.severity_score])

\* mean severity >= n, the mean of no scores being 0
MeanAtLeast(n) == Len(Observed) > 0 /\ ScoreSum >= n * Len(Observed)

\* C13: for every route analysis the risk tier is HIGH if there are two or
\* more critical conditions or the mean severity is at least 6; otherwise
\* MODERATE if there is one critical condition or the mean is at least 3;
\* otherwise LOW if the mean is at least 1; otherwise MINIMAL.
C13_RiskTier ==
  Briefed =>
    LET critical == CriticalCount
        observed == Len(Observed)
        total == ScoreSum
        mean_at_least(n) == observed > 0 /\ total >= n * observed
    IN  nlp_analysis[1].risk_assessment =
          IF critical >= 2 \/ mean_at_least(6) THEN "HIGH"
          ELSE IF critical >= 1 \/ mean_at_least(3) THEN "MODERATE"
          ELSE IF mean_at_least(1) THEN "LOW"
          ELSE "MINIMAL"

\* C13 witness: a route with exactly one critical condition and a mean
\* severity below 3 is rated MODERATE
C13_OneCriticalModerate ==
  /\ Briefed
  /\ CriticalCount = 1
  /\ ~MeanAtLeast(3)
  /\ nlp_analysis[1].risk_assessment = "MODERATE"

\* the part of the generation a line belongs to: 1 for a line about one
\* critical condition, 2 for route-wide guidance, 3 for communication
\* guidance, 0 for the "conditions favorable" triplet
Phase(line) ==
  IF line[1] \in {"AVOID: Thunderstorms at",
                  "Monitor weather radar continuously",
                  "VISIBILITY:",
                  "Brief instrument approach procedures and minimums",
                  "CEILING:", "WINDS:",
                  "Consider airports with more favorable runway orientations"}
  THEN 1
  ELSE IF line[1] \in {"FOCUS:", "CRITICAL AIRPORTS:",
                       "FUEL: Carry additional fuel",
                       "ALTERNATES: File multiple alternate airports",
                       "EQUIPMENT: Verify anti-ice/de-ice systems operational",
                       "PIREPS: Monitor pilot reports for icing conditions"}
  THEN 2
  ELSE IF line[1] \in {"COMMUNICATION: Establish contact with flight operations",
                       "UPDATES: Request weather updates every 30 minutes"}
  THEN 3
  ELSE 0

\* the lines in generation order, for the route analysis of the state
Generated == AllRecommendations(_analyze_route_conditions(weather_data, airports))

\* C14: the recommendation list has between 1 and 8 entries and is exactly
\* the first 8 (or all, if fewer) of the lines in generation order: the
\* lines per critical condition, then the route-wide guidance, then the
\* communication guidance, the "conditions favorable" triplet only when
\* nothing else was generated; the decision factors are never more than 5.
C14_RecommendationsTruncated ==
  Briefed =>
    LET recommendations == nlp_analysis[1].pilot_recommendations
        generated == Generated
        count == IF Len(generated) < 8 THEN Len(generated) ELSE 8
        phases == [k \in 1..Len(recommendations) |-> Phase(recommendations[k])]
    IN  /\ Len(recommendations) >= 1
        /\ Len(recommendations) <= 8
        /\ recommendations = [k \in 1..count |-> generated[k]]
        /\ \A i, j \in 1..Len(phases) : i < j => phases[i] <= phases[j]
        /\ (\E i \in 1..Len(phases) : phases[i] = 0)
             => \A i \in 1..Len(phases) : phases[i] = 0
        /\ Len(nlp_analysis[1].decision_factors) <= 5

\* C14 witness: more than 8 lines were generated for four critical
\* conditions, 8 were returned, and the decision factors were cut to 5
C14_NinthLineCut ==
  /\ Briefed
  /\ Len(Generated) > 8
  /\ CriticalCount = 4
  /\ Len(nlp_analysis[1].pilot_recommendations) = 8
  /\ Len(nlp_analysis[1].decision_factors) = 5

(***************************************************************************)
(* Scenarios: observations without an upstream flight category             *)
(***************************************************************************)
\* C15: the observation with visibility 3 SM, ceiling 800 ft, wind 12 kt
\* gusting 20 kt and light rain, decoded without an upstream flight
\* category, has total score 4 and is classified MARGINAL (SIGNIFICANT).
C15_LightRainLowCeilingMarginal ==
  (Classified /\ metar_data[1] = LightRainLowCeiling) =>
    /\ metar_analysis[1].severity_score = 4
    /\ metar_analysis[1].category = "SIGNIFICANT"

\* C15 amended: the same observation has total score 4 and, having no VFR
\* or MVFR tag, is classified ADVERSE (SEVERE) by the score >= 4 clause.
C15_LightRainLowCeilingAdverse ==
  (Classified /\ metar_data[1] = LightRainLowCeiling) =>
    /\ metar_analysis[1].severity_score = 4
    /\ metar_analysis[1].category = "SEVERE"

\* C15 witness: the observation has been classified, with score 4, SEVERE
C15_ScoreFourSevere ==
  /\ Classified
  /\ metar_data[1] = LightRainLowCeiling
  /\ metar_analysis[1].severity_score = 4
  /\ metar_analysis[1].category = "SEVERE"

\* C16: the observation with calm wind, visibility 10 SM, clear skies, no
\* ceiling and no weather, decoded without an upstream flight category, has
\* total score 0 and is classified FAVORABLE (CLEAR).
C16_CalmAndClearFavorable ==
  (Classified /\ metar_data[1] = CalmAndClear) =>
    /\ metar_analysis[1].severity_score = 0
    /\ metar_analysis[1].category = "CLEAR"

\* C16 amended: the same observation has total score 0 and, having no VFR
\* tag, is classified MARGINAL (SIGNIFICANT), the default of the derivation.
C16_CalmAndClearMarginal ==
  (Classified /\ metar_data[1] = CalmAndClear) =>
    /\ metar_analysis[1].severity_score = 0
    /\ metar_analysis[1].category = "SIGNIFICANT"

\* C16 witness: the observation has been classified, with score 0,
\* SIGNIFICANT
C16_ScoreZeroSignificant ==
  /\ Classified
  /\ metar_data[1] = CalmAndClear
  /\ metar_analysis[1].severity_score = 0
  /\ metar_analysis[1].category = "SIGNIFICANT"

(***************************************************************************)
(* Scenario: a pilot report with the /TB MOD and /IC LGT markers           *)
(***************************************************************************)
\* the report is the only other source and holds both markers
MarkedReport(raw) ==
  /\ In(<<"/","T","B"," ","M","O","D">>, raw)
  /\ In(<<"/","I","C"," ","L","G","T">>, raw)

\* C17: a pilot report holding the markers /TB MOD and /IC LGT is decoded
\* to turbulence "Moderate" and icing "Light", and the combined severity
\* score of its location is exactly 2 above the score of the surface
\* observation alone.
C17_MarkedReportAddsTwo ==
  (/\ Combined
   /\ results.taf = None
   /\ Len(results.pirep) = 1
   /\ results.pirep[1] # None
   /\ results.pirep[1][1].raw_text # None
   /\ MarkedReport(results.pirep[1][1].raw_text[1])
   /\ HasScore(analyze_metar(results.metar[1])))
  =>
    LET raw == results.pirep[1][1].raw_text[1]
    IN  /\ parse_raw(raw).turbulence = Some(<<"M","o","d","e","r","a","t","e">>)
        /\ parse_raw(raw).icing = Some(<<"L","i","g","h","t">>)
        /\ results.analysis[1].severity_score =
             analyze_metar(results.metar[1]).severity_score + 2

\* C17 failing case: the report "UA /OV JFK /TB MOD /IC LGT" is decoded to
\* Moderate and Light, and the combined score is the observation's own
C17_MarkedReportAddsNothing ==
  /\ Combined
  /\ results.taf = None
  /\ results.pirep =
       << Some([raw_text |-> Some(<<"U","A"," ","/","O","V"," ","J","F","K"," ",
                                    "/","T","B"," ","M","O","D"," ",
                                    "/","I","C"," ","L","G","T">>)]) >>
  /\ parse_raw(results.pirep[1][1].raw_text[1]).turbulence
       = Some(<<"M","o","d","e","r","a","t","e">>)
  /\ parse_raw(results.pirep[1][1].raw_text[1]).icing
       = Some(<<"L","i","g","h","t">>)
  /\ HasScore(analyze_metar(results.metar[1]))
  /\ results.analysis[1].severity_score
       = analyze_metar(results.metar[1]).severity_score

(***************************************************************************)
(* Decoder properties                                                      *)
(***************************************************************************)
ParsedJson == parsed # None

DecodedText == components # None

\* the bases of the BKN and OVC layers of the upstream record
CeilingBases ==
  { metar_json[1].clouds[k].base :
      k \in { j \in 1..Len(metar_json[1].clouds) :
                metar_json[1].clouds[j].cover \in {"BKN", "OVC"} } }

\* C18: for every list of cloud layers, in any order of heights, the
\* derived ceiling is the lowest base among the BKN and OVC layers; FEW and
\* SCT layers never affect it; without a BKN or OVC layer it is absent.
C18_CeilingIsLowestBrokenOrOvercast ==
  (ParsedJson /\ metar_json[1].ceiling = None) =>
    IF CeilingBases = {}
    THEN parsed[1].ceiling = None
    ELSE parsed[1].ceiling
           = Some(CHOOSE b \in CeilingBases : \A o \in CeilingBases : b <= o)

\* C18 failing case: an overcast layer at 1500 ft listed before a broken
\* layer at 800 ft gives a ceiling of 1500 ft
C18_FirstLayerNotLowest ==
  /\ ParsedJson
  /\ metar_json[1].ceiling = None
  /\ metar_json[1].clouds = << [cover |-> "OVC", base |-> 1500],
                               [cover |-> "BKN", base |-> 800] >>
  /\ parsed[1].ceiling = Some(1500)

\* a word of the raw text
HasToken(token) ==
  \E k \in 1..Len(split(raw_metar[1])) : split(raw_metar[1])[k] = token

\* a direction given as a number of degrees
Degrees == { Some(d) : d \in 0..360 }

EmptyReport == raw_report # None /\ raw_report[1].raw = <<>>

\* the fallback phrase of the decoder for a report without raw text
NoDataAvailable ==
  CASE raw_report[1].kind = "METAR" -> "No METAR data available"
    [] raw_report[1].kind = "TAF" -> "No TAF data available"
    [] raw_report[1].kind = "PIREP" -> "No PIREP data available"

\* every field parse_raw can set is absent
NothingDecoded(pirep) ==
  /\ pirep.altitude_ft_msl = None
  /\ pirep.turbulence = None
  /\ pirep.icing = None
  /\ pirep.sky = None
  /\ pirep.temp_c = None
  /\ pirep.aircraft = None
  /\ pirep.remarks = None
  /\ pirep.station = None
  /\ pirep.obs_time = None
  /\ pirep.receipt_time = None

\* C21: for each report kind (surface observation, forecast, pilot report)
\* decoding an empty raw string does not raise, yields a record with every
\* field absent, and its simplified phrase is the "no information
\* available" fallback: one clause saying that no data is available, from
\* the decoder as well as from parse_raw and make_summary.
C21_EmptyDecodesToFallback ==
  EmptyReport =>
    /\ decoded # None =>
         /\ decoded[1].components = None
         /\ decoded[1].simplified = <<Clause(NoDataAvailable, <<>>)>>
    /\ pirep_summary # None =>
         /\ NothingDecoded(pirep_summary[1].pirep)
         /\ Len(pirep_summary[1].simplified) = 1
         /\ pirep_summary[1].simplified[1].clause
              \in {"No PIREP data available",
                   "No pilot report information available"}

\* C21 as amended: for each report kind the decoder returns for an empty
\* raw string, without raising, empty components and the one-clause
\* fallback "No METAR/TAF/PIREP data available"; parse_raw returns for it
\* a pilot report with every field absent, for which make_summary gives no
\* fallback phrase but the three clauses "altitude not given", "location
\* unknown" and "time unknown".
C21_EmptyDecodesToNoData ==
  EmptyReport =>
    /\ decoded # None =>
         /\ decoded[1].components = None
         /\ decoded[1].raw = <<>>
         /\ decoded[1].simplified = <<Clause(NoDataAvailable, <<>>)>>
    /\ pirep_summary # None =>
         /\ NothingDecoded(pirep_summary[1].pirep)
         /\ pirep_summary[1].simplified
              = <<Clause("altitude not given", <<>>),
                  Clause("location unknown", <<>>),
                  Clause("time unknown", <<>>)>>

\* C21 witness: an empty pilot report went through the decoder and through
\* parse_raw and make_summary
C21_EmptyPilotReportDecoded ==
  /\ EmptyReport
  /\ raw_report[1].kind = "PIREP"
  /\ decoded # None
  /\ decoded[1].simplified = <<Clause("No PIREP data available", <<>>)>>
  /\ pirep_summary # None
  /\ Len(pirep_summary[1].simplified) = 3

(***************************************************************************)
(* The order of the pilot reports                                          *)
(***************************************************************************)
\* the time a report is ordered by: its observation time, else its receipt
\* time; -1 when neither is a time
SortTime(p) ==
  LET time == IF p.obs_time # None THEN p.obs_time ELSE p.receipt_time
  IN  IF time = None \/ time[1].form = "text" THEN -1 ELSE time[1].at

\* the orders of the positions 1..n
Orders(n) == { order \in [1..n -> 1..n] : \A i, j \in 1..n : i # j => order[i] # order[j] }

\* C22: for every list of fetched pilot reports (any mix of observation
\* time present, only receipt time present, or no parseable time)
\* fetch_and_sort does not raise and returns the reports ordered newest
\* first by observation time, falling back to receipt time, with reports of
\* unknown time last, and reports with equal sort time kept in their input
\* order.
C22_SortedNewestFirst ==
  sorted_pireps # None =>
    LET pireps == parse_api_json(pirep_items[1])
        returned == sorted_pireps[1].pireps
    IN  /\ ~sorted_pireps[1].raised
        /\ Len(returned) = Len(pireps)
        /\ \E order \in Orders(Len(pireps)) :
             /\ \A k \in 1..Len(pireps) : returned[k] = pireps[order[k]]
             /\ \A k, l \in 1..Len(pireps) :
                  k < l =>
                    \/ SortTime(returned[k]) > SortTime(returned[l])
                    \/ /\ SortTime(returned[k]) = SortTime(returned[l])
                       /\ order[k] < order[l]

\* C22 witness of the failure: a report with an observation time in seconds
\* since the epoch and a report without any time were fetched together, and
\* fetch_and_sort raised
C22_TimedAndUntimedRaise ==
  /\ sorted_pireps # None
  /\ sorted_pireps[1].raised
  /\ Len(pirep_items[1]) = 2
  /\ pirep_items[1][1].obsTime = Some([form |-> "epoch", at |-> 2])
  /\ pirep_items[1][2].obsTime = None
  /\ pirep_items[1][2].receiptTime = None


\* the fields of an observation that hold one value
SingleFields(found) ==
  [station |-> found.station, time |-> found.time, wind |-> found.wind,
   visibility |-> found.visibility, temperature |-> found.temperature,
   dewpoint |-> found.dewpoint, altimeter |-> found.altimeter]

\* an observation was decoded from words without the word RMK
DecodedObservation ==
  /\ raw_report # None
  /\ raw_report[1].kind = "METAR"
  /\ decoded # None
  /\ decoded[1].components # None
  /\ \A k \in 1..Len(split(raw_report[1].raw)) :
       split(raw_report[1].raw)[k] # <<"R","M","K">>

\* C23: surface-observation decoding is order-independent: for the words of
\* an observation placed before any RMK word, every permutation of the words
\* decodes to the same station, time, wind (with its variable-direction
\* annotation), visibility, temperature, dewpoint and altimeter.
C23_OrderIndependent ==
  DecodedObservation =>
    \A words \in Shuffles(split(raw_report[1].raw)) :
       SingleFields(_extract_metar_components(Join(words)))
         = SingleFields(decoded[1].components[1])

\* C23 witness of the failure: the station came first and the variable
\* direction came before the wind, and the decoded wind has no variable
\* direction, while it has one when the two words change places
C23_VariationBeforeWindLost ==
  /\ DecodedObservation
  /\ raw_report[1].raw = <<"K","J","F","K"," ","1","8","0","V","2","4","0"," ","1","8","0","1","2","G","2","0","K","T"," ","3","S","M">>
  /\ decoded[1].components[1].station = <<"K","J","F","K">>
  /\ decoded[1].components[1].wind[1].variable = None
  /\ _extract_metar_components(<<"K","J","F","K"," ","1","8","0","1","2","G","2","0","K","T"," ","1","8","0","V","2","4","0"," ","3","S","M">>).wind[1].variable
       = Some(<<"1","8","0","V","2","4","0">>)


(***************************************************************************)
(* Combiner and forecast (SpecWeather), decoders (SpecDecode)              *)
(***************************************************************************)
\* a surface observation was combined with no forecast and no pilot report
CombinedAlone ==
  Combined /\ results.taf = None /\ results.pirep = <<>>

\* C24: when a location has a surface observation and neither a forecast nor
\* a pilot report, the combiner's category and severity score are the
\* category and the score the classifier returned for that observation.
C24_ObservationAloneUnchanged ==
  CombinedAlone =>
    LET own == analyze_metar(results.metar[1])
        combined == results.analysis[1]
    IN  /\ combined.category = own.category
        /\ HasScore(own) =>
             /\ HasScore(combined)
             /\ combined.severity_score = own.severity_score

\* C24 failing case: an observation alone that the classifier calls
\* SIGNIFICANT with a score of 6 or more comes out of the combiner SEVERE
C24_AloneEscalated ==
  /\ CombinedAlone
  /\ analyze_metar(results.metar[1]).category = "SIGNIFICANT"
  /\ analyze_metar(results.metar[1]).severity_score >= 6
  /\ results.analysis[1].category = "SEVERE"
  /\ results.analysis[1].severity_score
       = analyze_metar(results.metar[1]).severity_score


\* what the forecast added to the severity score: the score returned, less
\* the score of the same observation and pilot reports without the forecast
ForecastContribution ==
  results.analysis[1].severity_score
    - analyze_combined_weather_data(
        [metar |-> results.metar, taf |-> None, pirep |-> results.pirep,
         time_appropriate_conditions |-> FALSE,
         primary_source |-> "METAR"]).value.severity_score

\* C25: the forecast adds 2 to the combined severity score if one of its
\* factors shows thunderstorm or deteriorating language, otherwise 1 if it
\* yields any forecast-change factor at all, otherwise 0; it never adds less
\* than 0 nor more than 2.
C25_ForecastContribution ==
  (http_status = 200 /\ results.taf # None) =>
    LET taf_factors == _analyze_taf_data(results.taf[1]).value
        added == ForecastContribution
    IN  /\ added \in {0, 1, 2}
        /\ added = IF AnyFactor({<<"t","h","u","n","d","e","r","s","t","o","r","m">>, <<"d","e","t","e","r","i","o","r","a","t","i","n","g">>}, taf_factors)
                   THEN 2
                   ELSE IF taf_factors # <<>> THEN 1 ELSE 0

\* C25 failing case: the forecast TAF KJFK TEMPO SKC yields the factor
\* 'Temporary conditions expected' and adds nothing to the score
C25_TemporaryConditionsAddNothing ==
  /\ http_status = 200
  /\ results.taf = Some([raw_text |-> Some(<<"T","A","F"," ","K","J","F","K"," ","T","E","M","P","O"," ","S","K","C">>)])
  /\ _analyze_taf_data(results.taf[1]).value
       = <<<<"T","e","m","p","o","r","a","r","y"," ","c","o","n","d","i","t","i","o","n","s"," ","e","x","p","e","c","t","e","d">>>>
  /\ ForecastContribution = 0


\* a forecast was decoded from a text that is not empty
DecodedForecast ==
  /\ raw_report # None
  /\ raw_report[1].kind = "TAF"
  /\ raw_report[1].raw # <<>>
  /\ decoded # None

\* the words of the forecast after its valid period
RemainingParts ==
  LET taf_parts == split(raw_report[1].raw)
      header == TafHeader(taf_parts, 1,
                          [type |-> <<>>, station |-> <<>>,
                           issue_time |-> <<>>, valid_period |-> <<>>,
                           raises |-> FALSE, rest |-> 1])
  IN  SubSeq(taf_parts, header.rest, Len(taf_parts))

\* a word that announces a period: FM and four digits, BECMG, TEMPO, or a
\* bare DDDD/DDDD
AnnouncesPeriod(part) ==
  \/ startswith(part, <<"F","M">>) /\ DigitsAt(part, 3, 4)
  \/ startswith(part, <<"B","E","C","M","G">>)
  \/ startswith(part, <<"T","E","M","P","O">>)
  \/ IsPeriod(part) /\ Len(part) = 9

\* the positions in the words at which the groups start
GroupStarts(groups) ==
  { 1 + Len(Concat(SubSeq(groups, 1, k - 1))) : k \in 1..Len(groups) }

\* C26: when the words after a forecast's valid period are split into period
\* groups, a new group starts at every word of the form FM and four digits,
\* at every BECMG word, at every TEMPO word and at every bare DDDD/DDDD word,
\* and nowhere else; the groups put together in order give back the words.
C26_GroupsStartAtMarkers ==
  DecodedForecast =>
    LET parts == RemainingParts
        groups == _split_forecast_groups(parts)
    IN  /\ Concat(groups) = parts
        /\ \A k \in 1..Len(groups) : groups[k] # <<>>
        /\ GroupStarts(groups) \ {1}
             = { k \in 2..Len(parts) : AnnouncesPeriod(parts[k]) }

\* C26 failing case: in TAF KJFK 121720Z 1218/1324 3SM TEMPO -RA the word
\* TEMPO opens no group: the three words make one group
C26_TempoOpensNoGroup ==
  /\ DecodedForecast
  /\ RemainingParts = <<<<"3","S","M">>, <<"T","E","M","P","O">>, <<"-","R","A">>>>
  /\ _split_forecast_groups(RemainingParts) = <<RemainingParts>>
  /\ Len(decoded[1].components[1].forecasts) = 1


\* the words of a group that are not the word that opened it
ConditionWords(group) ==
  IF OpensGroup(group[1]) THEN Tail(group) ELSE group

\* C27: for every forecast period group the period's conditions are the
\* decoding of exactly its condition words: every wind, visibility,
\* phenomenon or cloud word of the group (the first word of the baseline
\* group included) contributes, the word that opens the group with its
\* change marker or period is never decoded as a condition, and a group
\* without condition words records its period label with empty conditions.
C27_ConditionsOfConditionWords ==
  (DecodedForecast /\ decoded[1].components # None) =>
    LET groups == _split_forecast_groups(RemainingParts)
        forecasts == decoded[1].components[1].forecasts
    IN  /\ Len(forecasts) = Len(groups)
        /\ \A k \in 1..Len(groups) :
             LET conditions == GroupConditions(ConditionWords(groups[k]))
             IN  /\ forecasts[k].period = GroupPeriod(groups[k][1])
                 /\ forecasts[k].summary.conditions = conditions
                 /\ forecasts[k].conditions
                      = [wind |-> LastOf("wind", conditions),
                         visibility |-> LastOf("visibility", conditions),
                         weather |-> LastOf("weather", conditions),
                         clouds |-> LastOf("clouds", conditions)]

\* C27 failing case: in TAF KJFK 121720Z 1218/1324 18012G25KT 3SM the wind
\* opens the baseline group and is left out of its conditions
C27_BaselineWindLeftOut ==
  /\ DecodedForecast
  /\ decoded[1].components # None
  /\ RemainingParts = <<<<"1","8","0","1","2","G","2","5","K","T">>, <<"3","S","M">>>>
  /\ Len(decoded[1].components[1].forecasts) = 1
  /\ decoded[1].components[1].forecasts[1].period.label = "Initial conditions"
  /\ decoded[1].components[1].forecasts[1].conditions.wind = None
  /\ decoded[1].components[1].forecasts[1].conditions.visibility # None


(***************************************************************************)
(* Route briefing (Spec)                                                   *)
(***************************************************************************)
\* the hazards of the locations of the briefing
LocationHazards ==
  UNION { { weather_data[airport].analysis.hazards[k] :
              k \in 1..Len(weather_data[airport].analysis.hazards) } :
          airport \in DOMAIN weather_data }

\* C28: the route hazard list of a briefing is the deduplicated union of the
\* hazard lists of its locations: every hazard of every location appears in
\* it exactly once, and it contains nothing else.
C28_RouteHazardsAreUnion ==
  Briefed =>
    LET route_hazards == briefing[1].route_hazards
    IN  /\ { route_hazards[k] : k \in 1..Len(route_hazards) } = LocationHazards
        /\ \A i, j \in 1..Len(route_hazards) :
             i # j => route_hazards[i] # route_hazards[j]

\* C28 witness: two locations of a briefing report the same hazard, and the
\* route list holds two hazards or more, each of them once
C28_SharedHazardListedOnce ==
  /\ Briefed
  /\ Len(briefing[1].route_hazards) >= 2
  /\ Cardinality({ briefing[1].route_hazards[k] :
                     k \in 1..Len(briefing[1].route_hazards) })
       = Len(briefing[1].route_hazards)
  /\ \E a, b \in DOMAIN weather_data :
       /\ a # b
       /\ \E i \in 1..Len(weather_data[a].analysis.hazards) :
            \E j \in 1..Len(weather_data[b].analysis.hazards) :
               weather_data[a].analysis.hazards[i]
                 = weather_data[b].analysis.hazards[j]


(***************************************************************************)
(* Combiner (SpecWeather): what the sources add to the score               *)
(***************************************************************************)
\* what the pilot reports add by their factors: 2 for a turbulence or icing
\* factor, otherwise -1 for a 'smooth' factor, otherwise 0
PilotReportsAdd(pirep_factors) ==
  IF AnyFactor({<<"t","u","r","b","u","l","e","n","c","e">>, <<"i","c","i","n","g">>}, pirep_factors) THEN 2
  ELSE IF AnyFactor({<<"s","m","o","o","t","h">>}, pirep_factors) THEN 0 - 1
  ELSE 0

\* C29: for every location with a surface observation the combiner's
\* severity score less the classifier's score lies in {-1, 0, 1, 2, 3, 4}:
\* the forecast adds 0, 1 or 2, the pilot reports add exactly one of +2
\* (a turbulence or icing factor), -1 (a 'smooth' factor and no turbulence or
\* icing factor) or 0, and nothing else changes the score.
C29_ScoreDifference ==
  Combined =>
    LET own == analyze_metar(results.metar[1])
        pirep_factors == _analyze_pirep_data(results.pirep).value
        from_forecast == IF results.taf = None THEN {0} ELSE {0, 1, 2}
    IN  HasScore(own) =>
          LET difference == results.analysis[1].severity_score
                              - own.severity_score
          IN  /\ difference \in {0 - 1, 0, 1, 2, 3, 4}
              /\ \E added \in from_forecast :
                   difference = added + PilotReportsAdd(pirep_factors)

\* C29 witness: an observation the classifier scores above 0 was combined
\* with a thunderstorm forecast and a turbulence report, and the score rose
\* by 4
C29_BothSourcesAddFour ==
  /\ Combined
  /\ results.taf # None
  /\ results.pirep # <<>>
  /\ HasScore(analyze_metar(results.metar[1]))
  /\ analyze_metar(results.metar[1]).severity_score > 0
  /\ PilotReportsAdd(_analyze_pirep_data(results.pirep).value) = 2
  /\ results.analysis[1].severity_score
       = analyze_metar(results.metar[1]).severity_score + 4


\* C30: the overall category of a route briefing and its list of critical
\* locations agree: whenever the overall category is SIGNIFICANT or SEVERE
\* the list is not empty, and whenever it is CLEAR the list is empty.
C30_OverallAgreesWithCriticalList ==
  Briefed =>
    /\ briefing[1].overall_category \in {"SIGNIFICANT", "SEVERE"}
         => briefing[1].critical_airports # <<>>
    /\ briefing[1].overall_category = "CLEAR"
         => briefing[1].critical_airports = <<>>

\* C30 failing case: every location has a surface observation, a combined
\* score of 2 and the category CLEAR: the mean of 2 makes the route
\* SIGNIFICANT and no location is critical
C30_SignificantRouteNoCriticalLocation ==
  /\ Briefed
  /\ briefing[1].overall_category = "SIGNIFICANT"
  /\ briefing[1].critical_airports = <<>>
  /\ \A i \in 1..Len(airports) :
       /\ weather_data[airports[i]].metar # None
       /\ weather_data[airports[i]].analysis.severity_score = 2
       /\ weather_data[airports[i]].analysis.category = "CLEAR"

====
